---- MODULE Spec2Model ----
(***************************************************************************)
(* SHACL shape extraction (src/src/main.py): the pipeline                  *)
(*   load -> class index -> root detection -> per-class compilation ->     *)
(*   serialisation                                                         *)
(* as a state machine.  Text (URIs, qualified names, descriptions, error   *)
(* messages) is a sequence of atoms; an atom is an indivisible run of      *)
(* characters ("ex", ":", "/", " -[", "1", ...), and string operations     *)
(* (split, strip, startswith, concatenation, regular-expression matching)  *)
(* are computed on these sequences.                                        *)
(***************************************************************************)
EXTENDS Naturals, Sequences, FiniteSets, TLC

VARIABLES
    input,      \* the source given to main: its kind, override and content
    pc,         \* position of the run of main
    modules,    \* modules returned by _load_source (a sequence, dict order)
    ctx,        \* locals of create_shacl_shapes: shapes_base, class index, roots
    pos,        \* loop position: module, class and property indexes
    props,      \* property texts of the class being compiled
    shacl,      \* the shape graph under construction (a set of triples)
    bnodes,     \* number of blank nodes minted so far
    err,        \* message of the exception that ended the run (<<>>: none)
    output      \* what serialize wrote to the output file (a set of graphs)

vars == <<input, pc, modules, ctx, pos, props, shacl, bnodes, err, output>>

(***************************************************************************)
(* Text                                                                    *)
(***************************************************************************)
None == <<>>

\* The element of a singleton set.  "The({e(x) : x \in {v}})" evaluates v
\* once and e on its value.
The(S) == CHOOSE x \in S : TRUE

WS == {" ", "\n"}

DigitSeq == <<"0", "1", "2", "3", "4", "5", "6", "7", "8", "9">>

Digits == {DigitSeq[i] : i \in DOMAIN DigitSeq}

Wild == {"*", "N"}

\* Atoms of the character class [\w:-] other than digits and N.
WordAtoms ==
    {":", "-", "ex", "vx", "un", "ob", "lp", "rdfs", "xsd", "owl",
     "p", "p2", "q", "r", "A", "B", "C", "E", "T", "Z", "v_", "x",
     "Literal", "Resource", "string", "name", "INVALID", "FORMAT", "foaf", "Agent"}

TokenAtoms == WordAtoms \cup Digits \cup {"N"}

At(s, i) == IF i \in DOMAIN s THEN s[i] ELSE "<eos>"

Contains(s, a) == \E i \in DOMAIN s : s[i] = a

IsSubstr(a, s) ==
    \E i \in 0..Len(s) : i + Len(a) <= Len(s) /\ SubSeq(s, i + 1, i + Len(a)) = a

StartsWith(s, a) == Len(a) <= Len(s) /\ SubSeq(s, 1, Len(a)) = a

\* Index of the last atom of the longest run of atoms of S starting at i
\* (i - 1 when s[i] is not in S).
RunEnd(s, i, S) ==
    IF i > Len(s) THEN i - 1
    ELSE CHOOSE j \in (i - 1)..Len(s) :
             /\ \A k \in i..j : s[k] \in S
             /\ (j = Len(s) \/ s[j + 1] \notin S)

\* str.rindex: the last position of atom a in s (0 when absent).
RIndex(s, a) ==
    IF Contains(s, a)
    THEN CHOOSE i \in DOMAIN s : s[i] = a /\ \A k \in (i + 1)..Len(s) : s[k] # a
    ELSE 0

\* The position of the n-th atom of s that is in seps.
NthSep(s, seps, n) ==
    CHOOSE i \in DOMAIN s :
        s[i] \in seps /\ Cardinality({k \in 1..(i - 1) : s[k] \in seps}) = n - 1

\* str.split / re.split on any atom of the set seps: the pieces, in order.
SplitAny(s, seps) ==
    The({[j \in 1..(n + 1) |->
            SubSeq(s, IF j = 1 THEN 1 ELSE NthSep(s, seps, j - 1) + 1,
                      IF j = n + 1 THEN Len(s) ELSE NthSep(s, seps, j) - 1)] :
         n \in {Cardinality({k \in DOMAIN s : s[k] \in seps})}})

\* str.strip(): leading and trailing whitespace removed.
Strip(s) ==
    IF \A k \in DOMAIN s : s[k] \in WS THEN <<>>
    ELSE SubSeq(s, CHOOSE a \in DOMAIN s : s[a] \notin WS /\ \A k \in 1..(a - 1) : s[k] \in WS,
                   CHOOSE b \in DOMAIN s : s[b] \notin WS /\ \A k \in (b + 1)..Len(s) : s[k] \in WS)

\* str.rstrip('/')
RStripSlash(s) ==
    IF \A k \in DOMAIN s : s[k] = "/" THEN <<>>
    ELSE SubSeq(s, 1, CHOOSE b \in DOMAIN s : s[b] # "/" /\ \A k \in (b + 1)..Len(s) : s[k] = "/")

DigitVal(d) == (CHOOSE i \in DOMAIN DigitSeq : DigitSeq[i] = d) - 1

RECURSIVE ToIntUpTo(_, _)
\* The value of the first n digits of ds.
ToIntUpTo(ds, n) ==
    IF n = 0 THEN 0 ELSE 10 * ToIntUpTo(ds, n - 1) + DigitVal(ds[n])

\* int(): the value of a run of decimal digits.
ToInt(ds) == ToIntUpTo(ds, Len(ds))

Last(s) == s[Len(s)]

SeqToSet(s) == {s[i] : i \in DOMAIN s}

\* The pairs of the set pairs whose key is k, as the set of their values.
ValuesOf(pairs, k) == {pr[2] : pr \in {x \in pairs : x[1] = k}}

\* The maps {key -> value} a dict can end as when the pairs are inserted in
\* an unspecified order and a later insertion of a key overwrites an earlier
\* one: every key keeps one of its values.
ChoiceMaps(pairs) ==
    UNION {{[k \in {pr[1] : pr \in pairs} |->
                IF k \in multi THEN c[k] ELSE The(ValuesOf(pairs, k))] :
            c \in {d \in [multi -> {pr[2] : pr \in pairs}] :
                      \A k \in multi : d[k] \in ValuesOf(pairs, k)}} :
        multi \in {{k \in {pr[1] : pr \in pairs} : Cardinality(ValuesOf(pairs, k)) > 1}}}

(***************************************************************************)
(* Program constants                                                       *)
(***************************************************************************)
SHAPES_BASE == <<"https:", "/", "/", "w3id.org", "/", "skg-if", "/", "shapes", "/">>

DC_DESCRIPTION ==
    <<"http:", "/", "/", "purl.org", "/", "dc", "/", "elements", "/", "1.1", "/", "description">>

RDF_type == <<"http:", "/", "/", "www.w3.org", "/", "1999", "/", "02", "/", "22-rdf-syntax-ns", "#", "type">>

OWL_NS == <<"http:", "/", "/", "www.w3.org", "/", "2002", "/", "07", "/", "owl", "#">>

OWL_Class == OWL_NS \o <<"Class">>

OWL_Ontology == OWL_NS \o <<"Ontology">>

XSD_NS == <<"http:", "/", "/", "www.w3.org", "/", "2001", "/", "XMLSchema", "#">>

SH == <<"http:", "/", "/", "www.w3.org", "/", "ns", "/", "shacl", "#">>

MARKER == "The properties that can be used"

Bullets == {"\n* ", "\n- "}

FOAF_NS == <<"http:", "/", "/", "xmlns.com", "/", "foaf", "/", "0.1", "/">>

FABIO_NS == <<"http:", "/", "/", "purl.org", "/", "spar", "/", "fabio", "/">>

ROOT_CLASSES ==
    [m \in {<<"agent">>, <<"data-source">>, <<"grant">>, <<"research-product">>,
            <<"topic">>, <<"venue">>} |->
        CASE m = <<"agent">> -> FOAF_NS \o <<"Agent">>
          [] m = <<"data-source">> ->
                <<"http:", "/", "/", "www.w3.org", "/", "ns", "/", "dcat", "#", "DataService">>
          [] m = <<"grant">> ->
                <<"http:", "/", "/", "purl.org", "/", "cerif", "/", "frapo", "/", "Grant">>
          [] m = <<"research-product">> -> FABIO_NS \o <<"Work">>
          [] m = <<"topic">> -> FABIO_NS \o <<"SubjectTerm">>
          [] m = <<"venue">> -> FABIO_NS \o <<"ExpressionCollection">>]

(***************************************************************************)
(* Regular expressions                                                     *)
(***************************************************************************)
NoMatch ==
    [match |-> FALSE, prop_name |-> None, card_min |-> None, range_sep |-> FALSE,
     card_max |-> None, target |-> None]

\* A faulty match: the pattern must consume the whole text (fullmatch).
PatternTargetAnchored(t, e1, p, e2, sp, q, e3) ==
    The({The({IF At(t, e3 + 1) = "]->" /\ e4 >= e3 + 2 /\ e5 >= e4 + 1 /\ e5 = Len(t)
              THEN [match |-> TRUE,
                    prop_name |-> SubSeq(t, 1, e1),
                    card_min |-> SubSeq(t, p, e2),
                    range_sep |-> sp,
                    card_max |-> SubSeq(t, q, e3),
                    target |-> SubSeq(t, e4 + 1, e5)]
              ELSE NoMatch :
              e5 \in {RunEnd(t, e4 + 1, TokenAtoms)}}) :
         e4 \in {RunEnd(t, e3 + 2, WS)}})

\* The tail of the pattern, "]->\s+([\w:-]+)", after the second bound, which
\* ends at e3 (q - 1 when it is absent).
PatternTarget(t, e1, p, e2, sp, q, e3) ==
    The({The({IF At(t, e3 + 1) = "]->" /\ e4 >= e3 + 2 /\ e5 >= e4 + 1
              THEN [match |-> TRUE,
                    prop_name |-> SubSeq(t, 1, e1),
                    card_min |-> SubSeq(t, p, e2),
                    range_sep |-> sp,
                    card_max |-> SubSeq(t, q, e3),
                    target |-> SubSeq(t, e4 + 1, e5)]
              ELSE NoMatch :
              e5 \in {RunEnd(t, e4 + 1, TokenAtoms)}}) :
         e4 \in {RunEnd(t, e3 + 2, WS)}})

\* The groups "(\.\.)?(\d+|[*N])?" after the first bound, which ends at e2.
PatternMax(t, e1, p, e2) ==
    The({The({PatternTarget(t, e1, p, e2, At(t, e2 + 1) = "..", q, e3) :
              e3 \in {IF At(t, q) \in Digits THEN RunEnd(t, q, Digits)
                      ELSE IF At(t, q) \in Wild THEN q ELSE q - 1}}) :
         q \in {IF At(t, e2 + 1) = ".." THEN e2 + 2 ELSE e2 + 1}})

\* " -\[(\d+|[*N])" after the name, which ends at e1.
PatternMin(t, e1) ==
    IF e1 >= 1 /\ At(t, e1 + 1) = " -[" /\ At(t, e1 + 2) \in Digits \cup Wild
    THEN The({PatternMax(t, e1, e1 + 2, e2) :
              e2 \in {IF At(t, e1 + 2) \in Digits THEN RunEnd(t, e1 + 2, Digits)
                      ELSE e1 + 2}})
    ELSE NoMatch

\* re.match(PROPERTY_PATTERN, t):
\*   ([\w:-]+) -\[(\d+|[*N])(\.\.)?(\d+|[*N])?]->\s+([\w:-]+)
\* anchored at the start of t only; every repetition is greedy and none can
\* give back an atom to let the rest match; a group that did not take part
\* is None.
PROPERTY_PATTERN(t) ==
    The({PatternMin(t, e1) : e1 \in {RunEnd(t, 1, TokenAtoms)}})

\* One match of PREFIX_PATTERN at the "@prefix" at position i of lit, as a
\* set of (prefix, uri) pairs (empty: no match there).
PrefixDeclAt(lit, i) ==
    UNION {UNION {UNION {UNION {
        IF /\ a >= i + 1
           /\ b >= a + 1
           /\ At(lit, b + 1) = ":"
           /\ c >= b + 2
           /\ At(lit, c + 1) = "<"
           /\ d >= c + 2
           /\ At(lit, d + 1) = ">"
           /\ At(lit, RunEnd(lit, d + 2, WS) + 1) = "."
        THEN {<<SubSeq(lit, a + 1, b), SubSeq(lit, c + 2, d)>>}
        ELSE {} :
        d \in {RunEnd(lit, c + 2, SeqToSet(lit) \ {">"})}} :
        c \in {RunEnd(lit, b + 2, WS)}} :
        b \in {RunEnd(lit, a + 1, TokenAtoms \ {":", "-"})}} :
        a \in {RunEnd(lit, i + 1, WS)}}

\* PREFIX_PATTERN.finditer(lit): @prefix\s+(\w+):\s+<([^>]+)>\s*\.
\* the set of (prefix, uri) pairs declared in the text lit.
PREFIX_PATTERN(lit) ==
    UNION {PrefixDeclAt(lit, i) : i \in {k \in DOMAIN lit : lit[k] = "@prefix"}}

(***************************************************************************)
(* Graphs.  A module graph g is a record:                                  *)
(*   bindings  the store's prefix bindings, a set of [prefix, ns]          *)
(*   classes   the subjects typed owl:Class with their dc:description      *)
(*             (None: no description), in the store's iteration order      *)
(*   others    URIs of the remaining triples                               *)
(*   literals  literal objects other than class descriptions               *)
(*   iri       the subject typed owl:Ontology (None: not declared)         *)
(***************************************************************************)
\* g.store.namespace(prefix)
StoreNamespace(g, prefix) ==
    IF \E b \in g.bindings : b.prefix = prefix
    THEN (CHOOSE b \in g.bindings : b.prefix = prefix).ns
    ELSE None

\* The URIRef terms of the triples of g.
GraphURIs(g) ==
    {g.classes[i].uri : i \in DOMAIN g.classes}
      \cup g.others
      \cup (IF g.classes # <<>> THEN {RDF_type, OWL_Class} ELSE {})
      \cup (IF \E i \in DOMAIN g.classes : g.classes[i].desc # None
            THEN {DC_DESCRIPTION} ELSE {})
      \cup (IF g.iri # None THEN {g.iri, RDF_type, OWL_Ontology} ELSE {})

\* The Literal objects of the triples of g.
GraphLiterals(g) ==
    {g.classes[i].desc : i \in {k \in DOMAIN g.classes : g.classes[k].desc # None}}
      \cup g.literals

\* _get_ontology_iri
_get_ontology_iri(g) == g.iri

\* _derive_shapes_base
_derive_shapes_base(g) ==
    IF _get_ontology_iri(g) # None
    THEN RStripSlash(_get_ontology_iri(g)) \o <<"/", "shapes", "/">>
    ELSE <<"http:", "/", "/", "example.org", "/", "shapes", "/">>

\* One iteration of the loop of _build_uri_namespace_map: the (local, ns)
\* entry a URI contributes, as a set (empty when the URI is skipped).
UriEntry(uri) ==
    LET idx == IF Contains(uri, "#") THEN RIndex(uri, "#")
               ELSE IF Contains(uri, "/") THEN RIndex(uri, "/") ELSE 0
        local == SubSeq(uri, idx + 1, Len(uri))
        ns == SubSeq(uri, 1, idx)
    IN  IF idx > 0 /\ local # <<>> /\ ns # <<>> THEN {<<local, ns>>} ELSE {}

\* _build_uri_namespace_map: the maps local name -> namespace the loop can
\* end with (the graph's iteration order decides between two namespaces of
\* one local name).
_build_uri_namespace_map(g) ==
    UNION {ChoiceMaps(ps) : ps \in {UNION {UriEntry(u) : u \in GraphURIs(g)}}}

\* _extract_prefixes_from_literals
_extract_prefixes_from_literals(g) ==
    UNION {ChoiceMaps(ps) : ps \in {UNION {PREFIX_PATTERN(l) : l \in GraphLiterals(g)}}}

\* A faulty resolution: the observed local names are consulted before the
\* declared bindings.
ResolveObservedFirst(prefix, local_name, g, uri_ns_map, literal_prefix_map) ==
    LET ns == StoreNamespace(g, prefix)
    IN  IF local_name \in DOMAIN uri_ns_map THEN uri_ns_map[local_name]
        ELSE IF ns # None THEN ns
        ELSE IF prefix \in DOMAIN literal_prefix_map THEN literal_prefix_map[prefix]
        ELSE None

\* _resolve_namespace
_resolve_namespace(prefix, local_name, g, uri_ns_map, literal_prefix_map) ==
    LET ns == StoreNamespace(g, prefix)
    IN  IF ns # None THEN ns
        ELSE IF local_name \in DOMAIN uri_ns_map THEN uri_ns_map[local_name]
        ELSE IF prefix \in DOMAIN literal_prefix_map THEN literal_prefix_map[prefix]
        ELSE None

\* get_class_local_name
get_class_local_name(class_uri) ==
    IF Contains(class_uri, "#")
    THEN Last(SplitAny(class_uri, {"#"}))
    ELSE Last(SplitAny(class_uri, {"/"}))

\* "The properties that can be used" in str(desc), for a description that
\* may be None
HasMarker(desc) == desc # None /\ Contains(desc, MARKER)

\* [p for p in re.split(r'\n[*-] ', desc_str) if p.strip()][1:], each
\* stripped as the loops do before matching
Properties(desc_str) ==
    The({[i \in 1..(Len(parts) - 1) |-> Strip(parts[i + 1])] :
         parts \in {SelectSeq(SplitAny(desc_str, Bullets), LAMBDA s : Strip(s) # <<>>)}})

(***************************************************************************)
(* RDF terms and triples of the shape graph                                *)
(***************************************************************************)
URIRef(s) == [k |-> "uri", v |-> s, n |-> 0]

BNode(i) == [k |-> "bnode", v |-> <<>>, n |-> i]

\* Literal(n, datatype=XSD.integer)
IntLiteral(n) == [k |-> "int", v |-> <<>>, n |-> n]

SH_NodeShape == URIRef(SH \o <<"NodeShape">>)

SH_Literal == URIRef(SH \o <<"Literal">>)

SH_BlankNodeOrIRI == URIRef(SH \o <<"BlankNodeOrIRI">>)

RDF_TYPE == "rdf:type"

SH_targetClass == "sh:targetClass"

SH_property == "sh:property"

SH_path == "sh:path"

SH_minCount == "sh:minCount"

SH_maxCount == "sh:maxCount"

SH_nodeKind == "sh:nodeKind"

SH_datatype == "sh:datatype"

SH_node == "sh:node"

(***************************************************************************)
(* Loading                                                                 *)
(***************************************************************************)
\* Module and directory names in lexicographic order (the order of sorted()).
NameOrder == <<<<"agent">>, <<"grant">>, <<"onto">>, <<"resources">>, <<"topic">>>>

NameRank(name) == CHOOSE i \in DOMAIN NameOrder : NameOrder[i] = name

\* sorted(names)[0]
SortedFirst(names) ==
    CHOOSE n \in names : \A m \in names : NameRank(n) <= NameRank(m)

\* sorted(names) as a sequence
SortedSeq(names) ==
    [i \in 1..Cardinality(names) |->
        CHOOSE n \in names :
            Cardinality({m \in names : NameRank(m) < NameRank(n)}) = i - 1]

_is_url(source) == StartsWith(source, <<"http:", "/", "/">>) \/ StartsWith(source, <<"https:", "/", "/">>)

\* urlparse(u).path: after scheme and authority, up to a fragment
UrlPath(u) ==
    IF _is_url(u)
    THEN The({IF Contains(nofrag, "/")
              THEN SubSeq(nofrag, NthSep(nofrag, {"/"}, 1), Len(nofrag))
              ELSE <<>> :
              nofrag \in {Head(SplitAny(SubSeq(u, 4, Len(u)), {"#"}))}})
    ELSE Head(SplitAny(u, {"#"}))

\* [p for p in path.rstrip('/').split('/') if p]
PathParts(path) ==
    SelectSeq(SplitAny(RStripSlash(path), {"/"}), LAMBDA x : x # <<>>)

\* Path(source).stem: the last path component without its final suffix
PathStem(source) ==
    The({IF 1 < RIndex(name, ".") /\ RIndex(name, ".") < Len(name)
         THEN SubSeq(name, 1, RIndex(name, ".") - 1) ELSE name :
         name \in {Last(SplitAny(RStripSlash(source), {"/"}))}})

\* _derive_module_name
_derive_module_name(source, g) ==
    The({IF iparts # <<>> THEN Last(iparts)
         ELSE IF parts # <<>>
              THEN (IF Contains(Last(parts), ".")
                    THEN SubSeq(Last(parts), 1, RIndex(Last(parts), ".") - 1)
                    ELSE Last(parts))
              ELSE <<"ontology">> :
         iparts \in {IF _get_ontology_iri(g) # None
                     THEN PathParts(UrlPath(_get_ontology_iri(g))) ELSE <<>>},
         parts \in {IF _is_url(source) THEN PathParts(UrlPath(source))
                    ELSE <<PathStem(source)>>}})

\* A graph as loaded: the content g with the two lookup tables its store's
\* iteration order produces (the same order at every iteration of the same
\* store, and of a triple-by-triple copy of it).
Loaded(name, g, um, lm) ==
    [name |-> name, g |-> g, uri_ns_map |-> um, literal_prefix_map |-> lm]

\* A faulty choice of file: the least preferred format present.
LoadDirLeastPreferred(d) ==
    IF d.files = {} THEN {<<>>}
    ELSE UNION {{<<Loaded(d.name, f.g, um, lm)>> :
                    um \in _build_uri_namespace_map(f.g),
                    lm \in _extract_prefixes_from_literals(f.g)} :
                f \in {x \in d.files : \A f2 \in d.files : x.fmt >= f2.fmt}}

\* load_ontology_by_module: the possible results for a directory, whose
\* sub-directories are records [name, files], a file being [fmt, g] with
\* fmt its rank in the order *.ttl, *.rdf, *.owl, *.n3, *.nt, *.jsonld.
\* The possible loads of one sub-directory d: no module when it holds no
\* recognized file, else a module parsed from a file of the first format.
LoadDir(d) ==
    IF d.files = {} THEN {<<>>}
    ELSE UNION {{<<Loaded(d.name, f.g, um, lm)>> :
                    um \in _build_uri_namespace_map(f.g),
                    lm \in _extract_prefixes_from_literals(f.g)} :
                f \in {x \in d.files : \A f2 \in d.files : x.fmt <= f2.fmt}}

RECURSIVE LoadDirs(_, _, _)
\* The possible loads of the sub-directories names[i..], in that order.
LoadDirs(dirs, names, i) ==
    IF i > Len(names) THEN {<<>>}
    ELSE {m \o r : m \in LoadDir(CHOOSE x \in dirs : x.name = names[i]),
                   r \in LoadDirs(dirs, names, i + 1)}

load_ontology_by_module(dirs) ==
    UNION {LoadDirs(dirs, names, 1) :
           names \in {SortedSeq({d.name : d \in {x \in dirs : x.name # <<"resources">>}})}}

\* _load_source: the set of possible (modules, is_modular) results
_load_source(src) ==
    IF src.kind = "dir"
    THEN {[modules |-> ms, is_modular |-> TRUE] : ms \in load_ontology_by_module(src.dirs)}
    ELSE {[modules |-> <<Loaded(_derive_module_name(src.source, src.graph), src.graph, um, lm)>>,
           is_modular |-> FALSE] :
             um \in _build_uri_namespace_map(src.graph),
             lm \in _extract_prefixes_from_literals(src.graph)}

\* Whether Graph.parse fails on the source (or on a chosen module file).
ParseFails(src) ==
    IF src.kind = "dir"
    THEN \E d \in src.dirs :
             /\ d.name # <<"resources">>
             /\ \E f \in d.files : (~f.parsable) /\ (\A f2 \in d.files : f.fmt <= f2.fmt)
    ELSE ~src.parsable

\* The URIs of the classes of g whose description carries the marker phrase.
Described(g) ==
    {g.classes[c].uri : c \in {k \in DOMAIN g.classes : HasMarker(g.classes[k].desc)}}

\* A faulty allocation: the fixed base of a directory source is taken
\* before the override is looked at.
ResolveShapesBaseFixedFirst(ms, is_modular, shapes_base) ==
    IF is_modular THEN SHAPES_BASE
    ELSE IF shapes_base # None THEN shapes_base
    ELSE _derive_shapes_base(ms[1].g)

\* _resolve_shapes_base
_resolve_shapes_base(ms, is_modular, shapes_base) ==
    IF shapes_base # None THEN shapes_base
    ELSE IF is_modular THEN SHAPES_BASE
    ELSE _derive_shapes_base(ms[1].g)

\* _build_class_to_modules: class URI -> list of the modules describing it
_build_class_to_modules(ms) ==
    [u \in UNION {Described(ms[i].g) : i \in DOMAIN ms} |->
        The({[j \in DOMAIN owners |-> ms[owners[j]].name] :
             owners \in {SelectSeq([i \in DOMAIN ms |-> i],
                                   LAMBDA i : u \in Described(ms[i].g))}})]

(***************************************************************************)
(* Root detection                                                          *)
(***************************************************************************)
\* The ValueError of a tuple unpacking "a, b = x.split(':')" of n parts.
UnpackError(n) ==
    IF n > 2 THEN <<"too many values to unpack (expected 2)">>
    ELSE <<"not enough values to unpack (expected 2, got 1)">>

\* The matches of the property texts of the described classes of graph g
\* (lines 111-119 of _detect_root_classes: a text that does not match is
\* skipped).
DetectorMatches(g) ==
    UNION {{m \in {PROPERTY_PATTERN(ps[i]) : i \in DOMAIN ps} : m.match} :
           ps \in {Properties(g.classes[c].desc) :
                      c \in {k \in DOMAIN g.classes : HasMarker(g.classes[k].desc)}}}

\* Lines 120-130 of _detect_root_classes for one matched target: the URIs
\* it adds to the set referenced.
DetectorReferenced(target, lg) ==
    LET parts == SplitAny(target, {":"})
        target_ns ==
            IF Contains(target, ":")
            THEN _resolve_namespace(parts[1], parts[2], lg.g, lg.uri_ns_map, lg.literal_prefix_map)
            ELSE IF target \in DOMAIN lg.uri_ns_map THEN lg.uri_ns_map[target] ELSE None
        target_local == IF Contains(target, ":") THEN parts[2] ELSE target
    IN  IF Contains(target, ":") /\ parts[1] \in {<<"rdfs">>, <<"xsd">>} THEN {}
        ELSE IF target_ns # None THEN {target_ns \o target_local}
        ELSE {}

\* _detect_root_classes: [error, roots]; the unpacking of a target with two
\* or more colons raises before anything is returned.
_detect_root_classes(lg, described_classes) ==
    The({IF \E m \in ms : Len(SplitAny(m.target, {":"})) > 2
         THEN [error |-> UnpackError(3), roots |-> {}]
         ELSE [error |-> None,
               roots |-> described_classes \
                           UNION {DetectorReferenced(m.target, lg) : m \in ms}] :
         ms \in {DetectorMatches(lg.g)}})

\* A faulty root set: structural detection runs for a directory source
\* too, on its first module.
ResolveRootsDetecting(ms, class_to_modules, is_modular) ==
    IF is_modular /\ ms = <<>>
    THEN [error |-> None, roots |-> {ROOT_CLASSES[m] : m \in DOMAIN ROOT_CLASSES}]
    ELSE _detect_root_classes(ms[1], DOMAIN class_to_modules)

\* _resolve_root_class_uris: in the single-fragment case the detector runs
\* on a triple-by-triple copy of the only module, with its bindings.
_resolve_root_class_uris(ms, class_to_modules, is_modular) ==
    IF is_modular
    THEN [error |-> None, roots |-> {ROOT_CLASSES[m] : m \in DOMAIN ROOT_CLASSES}]
    ELSE _detect_root_classes(ms[1], DOMAIN class_to_modules)

(***************************************************************************)
(* Compilation of one property text                                        *)
(***************************************************************************)
\* A faulty cardinality: the bounds of a range are put in order before they
\* are emitted.
CardinalityTriplesOrdered(bnode, card_min, range_sep, card_max) ==
    IF (~range_sep) /\ card_min[1] \notin Wild
    THEN {<<bnode, SH_minCount, IntLiteral(ToInt(card_min))>>,
          <<bnode, SH_maxCount, IntLiteral(ToInt(card_min))>>}
    ELSE IF card_min # None /\ card_min[1] \notin Wild /\ card_max # None /\ card_max[1] \notin Wild
    THEN {<<bnode, SH_minCount,
            IntLiteral(IF ToInt(card_min) < ToInt(card_max) THEN ToInt(card_min) ELSE ToInt(card_max))>>,
          <<bnode, SH_maxCount,
            IntLiteral(IF ToInt(card_min) < ToInt(card_max) THEN ToInt(card_max) ELSE ToInt(card_min))>>}
    ELSE (IF card_min # None /\ card_min[1] \notin Wild
          THEN {<<bnode, SH_minCount, IntLiteral(ToInt(card_min))>>} ELSE {})
           \cup
         (IF card_max # None /\ card_max[1] \notin Wild
          THEN {<<bnode, SH_maxCount, IntLiteral(ToInt(card_max))>>} ELSE {})

\* Lines 247-255 of _process_property: the cardinality triples of bnode.
CardinalityTriples(bnode, card_min, range_sep, card_max) ==
    IF (~range_sep) /\ card_min[1] \notin Wild
    THEN {<<bnode, SH_minCount, IntLiteral(ToInt(card_min))>>,
          <<bnode, SH_maxCount, IntLiteral(ToInt(card_min))>>}
    ELSE (IF card_min # None /\ card_min[1] \notin Wild
          THEN {<<bnode, SH_minCount, IntLiteral(ToInt(card_min))>>} ELSE {})
           \cup
         (IF card_max # None /\ card_max[1] \notin Wild
          THEN {<<bnode, SH_maxCount, IntLiteral(ToInt(card_max))>>} ELSE {})

\* Lines 257-266 of _process_property: [error, target_ns, target_local].
ResolveTarget(target, class_uri, prop_text, lg) ==
    LET parts == SplitAny(target, {":"})
    IN  IF Contains(target, ":")
        THEN IF Len(parts) # 2
             THEN [error |-> UnpackError(Len(parts)), target_ns |-> None, target_local |-> None]
             ELSE LET ns == _resolve_namespace(parts[1], parts[2], lg.g,
                                               lg.uri_ns_map, lg.literal_prefix_map)
                  IN  IF ns = None
                      THEN [error |-> <<"Unknown prefix '">> \o parts[1] \o <<"' in ">>
                                        \o class_uri \o <<": ">> \o prop_text,
                            target_ns |-> None, target_local |-> parts[2]]
                      ELSE [error |-> None, target_ns |-> ns, target_local |-> parts[2]]
        ELSE IF target \in DOMAIN lg.uri_ns_map
             THEN [error |-> None, target_ns |-> lg.uri_ns_map[target], target_local |-> target]
             ELSE [error |-> <<"Cannot resolve unqualified name '">> \o target \o <<"' in ">>
                               \o class_uri \o <<": ">> \o prop_text,
                   target_ns |-> None, target_local |-> target]

\* A faulty tie-break: the smallest owning module even when the current
\* module owns the target.
TargetShapeUriSmallest(target_class_uri, target_local, class_to_modules, module_name, shapes_base, is_modular) ==
    LET target_modules == class_to_modules[target_class_uri]
        target_module == SortedFirst(SeqToSet(target_modules))
        target_shape_ns == IF is_modular THEN shapes_base \o target_module \o <<"/">>
                           ELSE shapes_base
    IN  target_shape_ns \o target_local \o <<"Shape">>

\* Lines 276-285 of _process_property: the shape URI a reference to a
\* modeled class points to.
TargetShapeUri(target_class_uri, target_local, class_to_modules, module_name, shapes_base, is_modular) ==
    LET target_modules == class_to_modules[target_class_uri]
        target_module == IF module_name \in SeqToSet(target_modules) THEN module_name
                         ELSE SortedFirst(SeqToSet(target_modules))
        target_shape_ns == IF is_modular THEN shapes_base \o target_module \o <<"/">>
                           ELSE shapes_base
    IN  target_shape_ns \o target_local \o <<"Shape">>

\* A faulty classification: a reference to a modeled class also keeps the
\* open-ended node kind.
TargetTriplesBoth(bnode, target, target_ns, target_local, class_to_modules, module_name, shapes_base, is_modular) ==
    IF target = <<"rdfs", ":", "Literal">>
    THEN {<<bnode, SH_nodeKind, SH_Literal>>}
    ELSE IF StartsWith(target, <<"xsd", ":">>)
    THEN {<<bnode, SH_datatype, URIRef(XSD_NS \o target_local)>>}
    ELSE IF (target_ns \o target_local) \in DOMAIN class_to_modules
    THEN {<<bnode, SH_node,
            URIRef(TargetShapeUri(target_ns \o target_local, target_local, class_to_modules,
                                  module_name, shapes_base, is_modular))>>,
          <<bnode, SH_nodeKind, SH_BlankNodeOrIRI>>}
    ELSE {<<bnode, SH_nodeKind, SH_BlankNodeOrIRI>>}

\* A faulty classification: the modeled-class test comes before the xsd test.
TargetTriplesModeledFirst(bnode, target, target_ns, target_local, class_to_modules, module_name, shapes_base, is_modular) ==
    IF target = <<"rdfs", ":", "Literal">>
    THEN {<<bnode, SH_nodeKind, SH_Literal>>}
    ELSE IF (target_ns \o target_local) \in DOMAIN class_to_modules
    THEN {<<bnode, SH_node,
            URIRef(TargetShapeUri(target_ns \o target_local, target_local, class_to_modules,
                                  module_name, shapes_base, is_modular))>>}
    ELSE IF StartsWith(target, <<"xsd", ":">>)
    THEN {<<bnode, SH_datatype, URIRef(XSD_NS \o target_local)>>}
    ELSE {<<bnode, SH_nodeKind, SH_BlankNodeOrIRI>>}

\* Lines 268-287 of _process_property: the target constraint of bnode.
TargetTriples(bnode, target, target_ns, target_local, class_to_modules, module_name, shapes_base, is_modular) ==
    IF target = <<"rdfs", ":", "Literal">>
    THEN {<<bnode, SH_nodeKind, SH_Literal>>}
    ELSE IF StartsWith(target, <<"xsd", ":">>)
    THEN {<<bnode, SH_datatype, URIRef(XSD_NS \o target_local)>>}
    ELSE IF (target_ns \o target_local) \in DOMAIN class_to_modules
    THEN {<<bnode, SH_node,
            URIRef(TargetShapeUri(target_ns \o target_local, target_local, class_to_modules,
                                  module_name, shapes_base, is_modular))>>}
    ELSE {<<bnode, SH_nodeKind, SH_BlankNodeOrIRI>>}

\* Lines 236-239 of _process_property: [error, prop_ns, prop_local].
ResolveProperty(prop_name, class_uri, prop_text, lg) ==
    LET parts == SplitAny(prop_name, {":"})
    IN  IF Len(parts) # 2
        THEN [error |-> UnpackError(Len(parts)), prop_ns |-> None, prop_local |-> None]
        ELSE LET ns == _resolve_namespace(parts[1], parts[2], lg.g,
                                          lg.uri_ns_map, lg.literal_prefix_map)
             IN  IF ns = None
                 THEN [error |-> <<"Unknown prefix '">> \o parts[1] \o <<"' in ">>
                                   \o class_uri \o <<": ">> \o prop_text,
                       prop_ns |-> None, prop_local |-> parts[2]]
                 ELSE [error |-> None, prop_ns |-> ns, prop_local |-> parts[2]]

\* Lines 230-232 of _process_property: the error of a text that does not
\* match the pattern.
InvalidFormat(class_uri, prop_text) ==
    <<"Invalid property format in ">> \o class_uri \o <<": ">> \o prop_text

\* _process_property after the match and the two resolutions: [error,
\* triples], the triples added to shacl up to the return or up to the raise.
ProcessResolved(m, rp, rt, shape_uri, class_to_modules, module_name, shapes_base, is_modular, bnode) ==
    IF rp.error # None
    THEN [error |-> rp.error, triples |-> {}]
    ELSE IF rt.error # None
    THEN [error |-> rt.error,
          triples |-> {<<URIRef(shape_uri), SH_property, bnode>>,
                       <<bnode, SH_path, URIRef(rp.prop_ns \o rp.prop_local)>>}
                        \cup CardinalityTriples(bnode, m.card_min, m.range_sep, m.card_max)]
    ELSE [error |-> None,
          triples |-> {<<URIRef(shape_uri), SH_property, bnode>>,
                       <<bnode, SH_path, URIRef(rp.prop_ns \o rp.prop_local)>>}
                        \cup CardinalityTriples(bnode, m.card_min, m.range_sep, m.card_max)
                        \cup TargetTriples(bnode, m.target, rt.target_ns, rt.target_local,
                                           class_to_modules, module_name, shapes_base,
                                           is_modular)]

\* A faulty compiler: a text that does not match is passed over, as the root
\* detector does.
ProcessMatchedSkipping(m, prop_text, class_uri, lg, shape_uri, class_to_modules, module_name, shapes_base, is_modular, bnode) ==
    IF ~m.match
    THEN [error |-> None, triples |-> {}]
    ELSE The({ProcessResolved(m, rp, rt, shape_uri, class_to_modules, module_name,
                              shapes_base, is_modular, bnode) :
              rp \in {ResolveProperty(m.prop_name, class_uri, prop_text, lg)},
              rt \in {ResolveTarget(m.target, class_uri, prop_text, lg)}})

\* _process_property after re.match returned m.
ProcessMatched(m, prop_text, class_uri, lg, shape_uri, class_to_modules, module_name, shapes_base, is_modular, bnode) ==
    IF ~m.match
    THEN [error |-> InvalidFormat(class_uri, prop_text), triples |-> {}]
    ELSE The({ProcessResolved(m, rp, rt, shape_uri, class_to_modules, module_name,
                              shapes_base, is_modular, bnode) :
              rp \in {ResolveProperty(m.prop_name, class_uri, prop_text, lg)},
              rt \in {ResolveTarget(m.target, class_uri, prop_text, lg)}})

\* _process_property: [error, triples].
_process_property(prop_text, class_uri, lg, shape_uri, class_to_modules, module_name, shapes_base, is_modular, bnode) ==
    The({ProcessMatched(m, prop_text, class_uri, lg, shape_uri, class_to_modules,
                        module_name, shapes_base, is_modular, bnode) :
         m \in {PROPERTY_PATTERN(prop_text)}})

(***************************************************************************)
(* The run of main                                                         *)
(***************************************************************************)
NoCtx ==
    [shapes_base |-> None, is_modular |-> FALSE, class_to_modules |-> <<>>,
     root_class_uris |-> {}]

\* Line 307 of create_shacl_shapes: the shape namespace of a module.
ShapeNs(shapes_base, module_name, is_modular) ==
    IF is_modular THEN shapes_base \o module_name \o <<"/">> ELSE shapes_base

\* Lines 321-322 of create_shacl_shapes: the shape URI minted for a class.
ShapeUri(shapes_base, module_name, is_modular, class_uri) ==
    ShapeNs(shapes_base, module_name, is_modular) \o get_class_local_name(class_uri) \o <<"Shape">>

\* A faulty skip test: only the absence of a description is tested.
SkippedIfUndescribed(cls) == cls.desc = None

\* Lines 311-318 of create_shacl_shapes: whether a class is passed over.
Skipped(cls) == cls.desc = None \/ ~Contains(cls.desc, MARKER)

\* A faulty main: the graph is written out whether or not the compilation
\* raised.
SerializeAfterRaise == pc \in {"returned", "raised"}

\* Line 349-350 of main: serialize runs on the graph create_shacl_shapes
\* returned; an exception of create_shacl_shapes leaves main before it.
SerializeEnabled == pc = "returned"

CurModule == modules[pos.mi]

CurClass == CurModule.g.classes[pos.ci]

\* Line 292: _load_source returns, or Graph.parse raises.
Load ==
    /\ pc = "start"
    /\ IF ParseFails(input)
       THEN /\ pc' = "raised"
            /\ err' = <<"ParseError">>
            /\ UNCHANGED <<modules, ctx>>
       ELSE \E r \in _load_source(input) :
            /\ modules' = r.modules
            /\ ctx' = [ctx EXCEPT !.is_modular = r.is_modular]
            /\ pc' = "loaded"
            /\ err' = err
    /\ UNCHANGED <<input, pos, props, shacl, bnodes, output>>

\* Lines 293-304: shapes base, class index and root set.
Prepare ==
    /\ pc = "loaded"
    /\ \E base \in {_resolve_shapes_base(modules, ctx.is_modular, input.shapes_base)},
          c2m \in {_build_class_to_modules(modules)} :
       \E rr \in {_resolve_root_class_uris(modules, c2m, ctx.is_modular)} :
           IF rr.error # None
           THEN /\ pc' = "raised"
                /\ err' = rr.error
                /\ UNCHANGED <<ctx, pos>>
           ELSE /\ ctx' = [shapes_base |-> base, is_modular |-> ctx.is_modular,
                           class_to_modules |-> c2m, root_class_uris |-> rr.roots]
                /\ pos' = [mi |-> 1, ci |-> 1, pi |-> 1]
                /\ pc' = "classes"
                /\ err' = err
    /\ UNCHANGED <<input, modules, props, shacl, bnodes, output>>

\* Lines 311-329: one iteration of the class loop up to the property loop.
BeginClass ==
    /\ pc = "classes"
    /\ pos.mi <= Len(modules)
    /\ pos.ci <= Len(CurModule.g.classes)
    /\ IF Skipped(CurClass)
       THEN /\ pos' = [pos EXCEPT !.ci = pos.ci + 1]
            /\ UNCHANGED <<pc, props, shacl>>
       ELSE \E shape_uri \in {ShapeUri(ctx.shapes_base, CurModule.name, ctx.is_modular,
                                       CurClass.uri)} :
                /\ shacl' = shacl
                     \cup {<<URIRef(shape_uri), RDF_TYPE, SH_NodeShape>>}
                     \cup (IF CurClass.uri \in ctx.root_class_uris
                           THEN {<<URIRef(shape_uri), SH_targetClass, URIRef(CurClass.uri)>>}
                           ELSE {})
                /\ props' = Properties(CurClass.desc)
                /\ pos' = [pos EXCEPT !.pi = 1]
                /\ pc' = "properties"
    /\ UNCHANGED <<input, modules, ctx, bnodes, err, output>>

\* A faulty property step: an entry is added to the literal-prefix map of the
\* module being processed.
ProcessPropertyCaching ==
    /\ pc = "properties"
    /\ pos.pi <= Len(props)
    /\ \E shape_uri \in {ShapeUri(ctx.shapes_base, CurModule.name, ctx.is_modular,
                                  CurClass.uri)} :
       \E r \in {_process_property(props[pos.pi], CurClass.uri, CurModule, shape_uri,
                    ctx.class_to_modules, CurModule.name, ctx.shapes_base, ctx.is_modular,
                    BNode(bnodes + 1))} :
           /\ shacl' = shacl \cup r.triples
           /\ bnodes' = IF r.triples # {} THEN bnodes + 1 ELSE bnodes
           /\ modules' = [modules EXCEPT ![pos.mi].literal_prefix_map =
                             [x \in {<<"cached">>} \cup DOMAIN @ |->
                                 IF x \in DOMAIN @ THEN @[x] ELSE SHAPES_BASE]]
           /\ IF r.error # None
              THEN /\ pc' = "raised"
                   /\ err' = r.error
                   /\ pos' = pos
              ELSE /\ pos' = [pos EXCEPT !.pi = pos.pi + 1]
                   /\ UNCHANGED <<pc, err>>
    /\ UNCHANGED <<input, ctx, props, output>>

\* Lines 331-336: one iteration of the property loop.
ProcessProperty ==
    /\ pc = "properties"
    /\ pos.pi <= Len(props)
    /\ \E shape_uri \in {ShapeUri(ctx.shapes_base, CurModule.name, ctx.is_modular,
                                  CurClass.uri)} :
       \E r \in {_process_property(props[pos.pi], CurClass.uri, CurModule, shape_uri,
                    ctx.class_to_modules, CurModule.name, ctx.shapes_base, ctx.is_modular,
                    BNode(bnodes + 1))} :
           /\ shacl' = shacl \cup r.triples
           /\ bnodes' = IF r.triples # {} THEN bnodes + 1 ELSE bnodes
           /\ IF r.error # None
              THEN /\ pc' = "raised"
                   /\ err' = r.error
                   /\ pos' = pos
              ELSE /\ pos' = [pos EXCEPT !.pi = pos.pi + 1]
                   /\ UNCHANGED <<pc, err>>
    /\ UNCHANGED <<input, modules, ctx, props, output>>

\* The property loop of a class is exhausted: on to the next class.
EndClass ==
    /\ pc = "properties"
    /\ pos.pi > Len(props)
    /\ pos' = [pos EXCEPT !.ci = pos.ci + 1]
    /\ pc' = "classes"
    /\ UNCHANGED <<input, modules, ctx, props, shacl, bnodes, err, output>>

\* The class loop of a module is exhausted: on to the next module.
NextModule ==
    /\ pc = "classes"
    /\ pos.mi <= Len(modules)
    /\ pos.ci > Len(CurModule.g.classes)
    /\ pos' = [pos EXCEPT !.mi = pos.mi + 1, !.ci = 1]
    /\ UNCHANGED <<input, pc, modules, ctx, props, shacl, bnodes, err, output>>

\* Line 338: create_shacl_shapes returns the graph.
Return ==
    /\ pc = "classes"
    /\ pos.mi > Len(modules)
    /\ pc' = "returned"
    /\ UNCHANGED <<input, modules, ctx, pos, props, shacl, bnodes, err, output>>

\* Line 350: main serializes the returned graph to the output file.
Serialize ==
    /\ SerializeEnabled
    /\ output' = {shacl}
    /\ pc' = "done"
    /\ UNCHANGED <<input, modules, ctx, pos, props, shacl, bnodes, err>>

(***************************************************************************)
(* Sources the run is checked on                                           *)
(***************************************************************************)
\* Largest digit written in a cardinality bound.
MaxCard == 2

EX == <<"http:", "/", "/", "e.org", "/">>

\* A namespace that does not end with a separator.
VX == EX \o <<"v_">>

RDFS_NS == <<"http:", "/", "/", "www.w3.org", "/", "2000", "/", "01", "/", "rdf-schema", "#">>

\* Declared only inside a literal, as "@prefix lp: <http://l.org/> ."
LP_NS == <<"http:", "/", "/", "l.org", "/">>

\* Bound to no prefix; observed in the URI http://o.org#q.
OB_NS == <<"http:", "/", "/", "o.org", "#">>

QName(prefix, local) == <<prefix, ":", local>>

Line(name, card, target) == name \o <<" -[">> \o card \o <<"]->", " ">> \o target

Header == <<MARKER, " with this class are:", "\n">>

RECURSIVE Bulleted(_, _)
Bulleted(lines, n) ==
    IF n = 0 THEN <<>> ELSE Bulleted(lines, n - 1) \o <<"\n* ">> \o lines[n]

Desc(lines) == Header \o Bulleted(lines, Len(lines))

Bound == {<<DigitSeq[n + 1]>> : n \in 0..MaxCard} \cup {<<"*">>, <<"N">>}

\* The texts between -[ and ]-> that the pattern accepts.
Cards ==
    Bound \cup {a \o <<"..">> \o b : a \in Bound, b \in Bound \cup {<<>>}}
          \cup {a \o b : a \in Bound, b \in Bound}

Names ==
    {QName("ex", "p"), QName("un", "p2"), QName("ob", "q"), QName("lp", "r"),
     QName("vx", "q"), QName("lp", "q"),
     <<"p">>, <<"q">>, <<"ex", ":", "p", ":", "x">>, <<"un", ":", "p2", ":", "x">>}

Targets ==
    {QName("rdfs", "Literal"), QName("xsd", "string"), QName("ex", "B"), QName("ex", "C"),
     QName("un", "T"), <<"B">>, <<"Z">>, <<"ex", ":", "B", ":", "x">>, QName("ex", "A"),
     QName("vx", "E"), QName("rdfs", "B"), QName("xsd", "B")}

Malformed == <<"foaf", ":", "name", " ", "INVALID", " ", "FORMAT">>

Trailing == Line(QName("ex", "p"), <<"1">>, QName("ex", "B")) \o <<" ", "x", "\n", "INVALID">>

\* Property lines followed by further text: a sentence after a full stop, a
\* second line, and a line whose prefix is unknown.
TrailingTexts ==
    {Line(QName("ex", "p"), <<"0", "..", "1">>, QName("xsd", "string")) \o <<".", " ", "x">>,
     Line(QName("ex", "q"), <<"1", "..", "N">>, QName("rdfs", "Literal")) \o <<"\n", "FORMAT">>,
     Line(QName("un", "p2"), <<"1">>, QName("ex", "B")) \o <<" ", "INVALID">>}

Lines1 ==
    {Line(n, <<"1">>, t) : n \in Names, t \in Targets}
      \cup {Line(QName("ex", "p"), c, QName("rdfs", "Literal")) : c \in Cards}
      \cup {Malformed, Trailing}

Lines2 == {Line(QName("ex", "q"), <<"0", "..", "1">>, QName("ex", "B")), Malformed}

BDescs ==
    {None,
     <<"A", " ", "name">>,
     Desc(<<>>),
     Desc(<<Line(QName("ex", "p"), <<"1">>, QName("rdfs", "Literal"))>>),
     Desc(<<Line(QName("ex", "p"), <<"0", "..", "N">>, QName("ex", "A"))>>)}

\* A description that begins with a bullet line: the text before the first
\* bullet is empty and the marker phrase closes the last line.
BlankFirst ==
    <<"\n* ">> \o Line(QName("ex", "p"), <<"1">>, QName("rdfs", "Literal"))
      \o <<"\n* ">> \o Line(QName("ex", "q"), <<"0", "..", "1">>, QName("ex", "B"))
      \o <<" ", MARKER>>

DefaultBindings ==
    {[prefix |-> <<"ex">>, ns |-> EX], [prefix |-> <<"vx">>, ns |-> VX],
     [prefix |-> <<"rdfs">>, ns |-> RDFS_NS], [prefix |-> <<"xsd">>, ns |-> XSD_NS],
     [prefix |-> <<"owl">>, ns |-> OWL_NS]}

\* rdfs bound to no namespace (its namespace carries another prefix).
NoRdfsBindings ==
    {[prefix |-> <<"ex">>, ns |-> EX], [prefix |-> <<"r">>, ns |-> RDFS_NS],
     [prefix |-> <<"xsd">>, ns |-> XSD_NS], [prefix |-> <<"owl">>, ns |-> OWL_NS]}

PrefixLiteral ==
    <<"Prefixes", ":", "\n", "@prefix", " ", "lp", ":", " ", "<">> \o LP_NS \o <<">", " ", ".">>

OntoIri == EX \o <<"onto">>

\* A fragment with classes A and B (described as given), C (not described)
\* and E (described, no property, in namespace VX).
Fragment(bindings, adesc, bdesc) ==
    [bindings |-> bindings,
     classes |-> <<[uri |-> EX \o <<"A">>, desc |-> adesc],
                   [uri |-> EX \o <<"B">>, desc |-> bdesc],
                   [uri |-> EX \o <<"C">>, desc |-> None],
                   [uri |-> VX \o <<"E">>, desc |-> Desc(<<>>)]>>,
     others |-> {OB_NS \o <<"q">>},
     literals |-> {PrefixLiteral},
     iri |-> OntoIri]

\* A fragment that also describes terms of the RDFS and XML Schema
\* namespaces as classes of its own.
StandardFragment(adesc) ==
    [bindings |-> DefaultBindings,
     classes |-> <<[uri |-> EX \o <<"A">>, desc |-> adesc],
                   [uri |-> RDFS_NS \o <<"Resource">>, desc |-> Desc(<<>>)],
                   [uri |-> RDFS_NS \o <<"Literal">>, desc |-> Desc(<<>>)],
                   [uri |-> XSD_NS \o <<"string">>, desc |-> Desc(<<>>)]>>,
     others |-> {}, literals |-> {}, iri |-> OntoIri]

\* A fragment with two described classes of local name A, one in namespace
\* EX and one in OB_NS, and a class B described as given.
HomonymFragment(adesc, bdesc) ==
    [bindings |-> DefaultBindings,
     classes |-> <<[uri |-> EX \o <<"A">>, desc |-> adesc],
                   [uri |-> OB_NS \o <<"A">>,
                    desc |-> Desc(<<Line(QName("ex", "q"), <<"0", "..", "1">>,
                                         QName("rdfs", "Literal"))>>)],
                   [uri |-> EX \o <<"B">>, desc |-> bdesc]>>,
     others |-> {OB_NS \o <<"B">>, VX \o <<"/", "q">>, OB_NS \o <<"q">>},
     literals |-> {}, iri |-> OntoIri]

\* A fragment of two described classes x and y, each with one property
\* whose target is the given token.
PairFragment(x, xtarget, y, ytarget) ==
    [bindings |-> DefaultBindings,
     classes |-> <<[uri |-> x,
                    desc |-> Desc(<<Line(QName("ex", "p"), <<"0", "..", "N">>, xtarget)>>)],
                   [uri |-> y,
                    desc |-> Desc(<<Line(QName("ex", "q"), <<"1">>, ytarget)>>)]>>,
     others |-> {}, literals |-> {}, iri |-> OntoIri]

EmptyGraph == [bindings |-> {}, classes |-> <<>>, others |-> {}, literals |-> {}, iri |-> None]

FileSource(g, parsable) ==
    [kind |-> "file", source |-> <<"data", "/", "onto", ".", "ttl">>, shapes_base |-> None,
     parsable |-> parsable, graph |-> g, dirs |-> {}]

\* A file source compiled with a --shapes-base override (None: no override).
FileSourceBase(g, shapes_base) ==
    [kind |-> "file", source |-> <<"data", "/", "onto", ".", "ttl">>, shapes_base |-> shapes_base,
     parsable |-> TRUE, graph |-> g, dirs |-> {}]

\* The graph g with another owl:Ontology subject (None: no declaration).
WithIri(g, iri) == [g EXCEPT !.iri = iri]

\* A file or URL source at the locator source, whose graph declares the
\* ontology IRI iri (None: no declaration).
SourceAt(source, iri) ==
    [kind |-> "file", source |-> source, shapes_base |-> None, parsable |-> TRUE,
     graph |-> [bindings |-> DefaultBindings,
                classes |-> <<[uri |-> EX \o <<"A">>,
                               desc |-> Desc(<<Line(QName("ex", "p"), <<"1">>,
                                                    QName("rdfs", "Literal"))>>)]>>,
                others |-> {}, literals |-> {}, iri |-> iri],
     dirs |-> {}]

\* Locators of file and URL sources.
Locators ==
    {<<"data", "/", "a", ".", "b", ".", "ttl">>,
     <<"data", "/", "noext">>,
     <<"https:", "/", "/", "e.org", "/", "path", "/", "onto", ".", "ttl">>,
     <<"https:", "/", "/", "e.org", "/", "path", "/", "onto", "/">>,
     <<"https:", "/", "/", "e.org">>}

\* Ontology IRIs: none, without a path, with the path "/", with a path.
DeclaredIris ==
    {None, <<"http:", "/", "/", "e.org">>, EX, EX \o <<"dharc", "/", "chad-ap">>}

DirSource(dirs, shapes_base) ==
    [kind |-> "dir", source |-> <<"data", "/", "ontology">>, shapes_base |-> shapes_base,
     parsable |-> TRUE, graph |-> EmptyGraph, dirs |-> dirs]

AgentGraph(bdesc) ==
    [bindings |-> DefaultBindings \cup {[prefix |-> <<"foaf">>, ns |-> FOAF_NS]},
     classes |-> <<[uri |-> FOAF_NS \o <<"Agent">>,
                    desc |-> Desc(<<Line(QName("foaf", "name"), <<"0", "..", "1">>,
                                         QName("rdfs", "Literal")),
                                    Line(QName("ex", "p"), <<"0", "..", "N">>, QName("ex", "B"))>>)],
                   [uri |-> EX \o <<"B">>, desc |-> bdesc]>>,
     others |-> {}, literals |-> {}, iri |-> None]

TopicGraph ==
    [bindings |-> DefaultBindings,
     classes |-> <<[uri |-> EX \o <<"B">>,
                    desc |-> Desc(<<Line(QName("ex", "p"), <<"1">>, QName("xsd", "string"))>>)],
                   [uri |-> EX \o <<"A">>,
                    desc |-> Desc(<<Line(QName("ex", "q"), <<"1">>, QName("ex", "B"))>>)]>>,
     others |-> {}, literals |-> {}, iri |-> None]

\* A module graph that describes foaf:Agent, to be loaded under a module
\* name other than agent.
GrantGraph ==
    [bindings |-> DefaultBindings \cup {[prefix |-> <<"foaf">>, ns |-> FOAF_NS]},
     classes |-> <<[uri |-> FOAF_NS \o <<"Agent">>,
                    desc |-> Desc(<<Line(QName("foaf", "name"), <<"1">>,
                                         QName("rdfs", "Literal"))>>)],
                   [uri |-> EX \o <<"B">>,
                    desc |-> Desc(<<Line(QName("ex", "p"), <<"1">>, QName("ex", "A")),
                                    Line(QName("ex", "q"), <<"1">>, QName("ex", "B"))>>)]>>,
     others |-> {}, literals |-> {}, iri |-> None]

\* A module graph whose class A references foaf:Agent, a class described
\* in other modules only.
TopicAgentGraph ==
    [bindings |-> DefaultBindings \cup {[prefix |-> <<"foaf">>, ns |-> FOAF_NS]},
     classes |-> <<[uri |-> EX \o <<"B">>,
                    desc |-> Desc(<<Line(QName("ex", "p"), <<"1">>, QName("xsd", "string"))>>)],
                   [uri |-> EX \o <<"A">>,
                    desc |-> Desc(<<Line(QName("ex", "q"), <<"1">>, QName("foaf", "Agent")),
                                    Line(QName("ex", "p"), <<"1">>, QName("ex", "B"))>>)]>>,
     others |-> {}, literals |-> {}, iri |-> None]

File(fmt, g, parsable) == [fmt |-> fmt, g |-> g, parsable |-> parsable]

Dirs(bdesc, topicParsable) ==
    {[name |-> <<"agent">>, files |-> {File(1, AgentGraph(bdesc), TRUE)}],
     [name |-> <<"topic">>, files |-> {File(2, TopicGraph, topicParsable),
                                       File(4, EmptyGraph, FALSE)}],
     [name |-> <<"grant">>, files |-> {}],
     [name |-> <<"resources">>, files |-> {File(1, EmptyGraph, FALSE)}]}

\* A directory whose modules agent and grant both describe foaf:Agent and a
\* class B, and whose module topic describes B and a class A that references
\* foaf:Agent.
RootDirs ==
    {[name |-> <<"agent">>, files |-> {[fmt |-> 1, g |-> AgentGraph(Desc(<<>>)), parsable |-> TRUE]}],
     [name |-> <<"grant">>, files |-> {[fmt |-> 1, g |-> GrantGraph, parsable |-> TRUE]}],
     [name |-> <<"topic">>, files |-> {[fmt |-> 3, g |-> TopicAgentGraph, parsable |-> TRUE]}]}

\* A directory none of whose module sub-directories holds a file of a
\* recognised format.
EmptyDirs ==
    {[name |-> <<"grant">>, files |-> {}],
     [name |-> <<"topic">>, files |-> {}],
     [name |-> <<"resources">>, files |-> {[fmt |-> 1, g |-> TopicGraph, parsable |-> TRUE]}]}

Inputs ==
    {FileSource(Fragment(DefaultBindings, Desc(<<l>>), b), TRUE) : l \in Lines1, b \in BDescs}
      \cup {FileSource(Fragment(DefaultBindings, Desc(<<l1, l2>>), b), TRUE) :
               l1 \in {Line(n, <<"1">>, QName("ex", "B")) : n \in Names} \cup {Malformed},
               l2 \in Lines2, b \in BDescs}
      \cup {FileSource(StandardFragment(Desc(<<Line(QName("ex", "p"), c, t)>>)), TRUE) :
               c \in {<<"1">>, <<"0", "..", "N">>},
               t \in {QName("rdfs", "Literal"), QName("rdfs", "Resource"),
                      QName("xsd", "string"), QName("ex", "A")}}
      \cup {FileSource(Fragment(NoRdfsBindings,
                                Desc(<<Line(QName("ex", "p"), <<"1">>, t)>>), b), TRUE) :
               t \in {QName("rdfs", "Literal"), QName("r", "Literal"), QName("ex", "B")},
               b \in {Desc(<<>>), None}}
      \cup {FileSource(Fragment(DefaultBindings, BlankFirst, b), TRUE) : b \in {None, Desc(<<>>)}}
      \cup {FileSourceBase(WithIri(Fragment(DefaultBindings,
                                            Desc(<<Line(QName("ex", "p"), <<"1">>, QName("ex", "B"))>>),
                                            Desc(<<>>)), iri), sb) :
               iri \in {None, OntoIri \o <<"/">>, OntoIri \o <<"/", "/">>, OntoIri \o <<"#">>},
               sb \in {None, EX \o <<"sh", "/">>}}
      \cup {FileSource(HomonymFragment(Desc(<<Line(n, <<"1">>, t)>>), b), TRUE) :
               n \in {QName("ex", "p"), QName("ob", "q")},
               t \in {QName("rdfs", "Literal"), <<"A">>, <<"B">>, QName("ex", "B")},
               b \in {None, Desc(<<>>)}}
      \cup {SourceAt(l, iri) : l \in Locators, iri \in DeclaredIris}
      \cup {FileSource(Fragment(DefaultBindings, Desc(<<l>>), Desc(<<>>)), TRUE) : l \in TrailingTexts}
      \cup {FileSource(PairFragment(EX \o <<"A">>, ta, y, QName("ex", "A")), TRUE) :
               ta \in {QName("ex", "B"), QName("rdfs", "Resource"), QName("ex", "A")},
               y \in {EX \o <<"B">>, RDFS_NS \o <<"Resource">>}}
      \cup {DirSource(RootDirs, None)}
      \cup {DirSource(EmptyDirs, sb) : sb \in {None, EX \o <<"sh", "/">>}}
      \cup {FileSource(Fragment(DefaultBindings, Desc(<<>>), None), FALSE)}
      \cup {DirSource(Dirs(b, tp), sb) :
               b \in {None, Desc(<<>>)}, tp \in BOOLEAN, sb \in {None, EX \o <<"sh", "/">>}}

Init ==
    /\ input \in Inputs
    /\ pc = "start"
    /\ modules = <<>>
    /\ ctx = NoCtx
    /\ pos = [mi |-> 0, ci |-> 0, pi |-> 0]
    /\ props = <<>>
    /\ shacl = {}
    /\ bnodes = 0
    /\ err = None
    /\ output = {}

Next ==
    \/ Load
    \/ Prepare
    \/ BeginClass
    \/ ProcessProperty
    \/ EndClass
    \/ NextModule
    \/ Return
    \/ Serialize

Spec == Init /\ [][Next]_vars

(***************************************************************************)
(* Properties                                                              *)
(***************************************************************************)
\* create_shacl_shapes has returned its graph.
Returned == pc \in {"returned", "done"}

\* The property loop has just compiled the text LastText into LastNode.
Compiled == pc = "properties" /\ pos.pi > 1

LastText == props[pos.pi - 1]

LastMatch == PROPERTY_PATTERN(LastText)

LastNode == BNode(bnodes)

\* The run stopped with an exception raised inside _process_property.
RaisedAtProperty == pc = "raised" /\ pos.pi \in DOMAIN props

Objects(G, s, p) == {t[3] : t \in {x \in G : x[1] = s /\ x[2] = p}}

PropertyNodes(G) == {t[3] : t \in {x \in G : x[2] = SH_property}}

\* The target constraints of node b, as (predicate, object) pairs.
TargetConstraints(G, b) ==
    {<<t[2], t[3]>> : t \in {x \in G : x[1] = b /\ x[2] \in {SH_nodeKind, SH_datatype, SH_node}}}

\* The target constraints the shape language offers.
TargetConstraintForms(G) ==
    {<<SH_nodeKind, SH_Literal>>, <<SH_nodeKind, SH_BlankNodeOrIRI>>}
      \cup {<<t[2], t[3]>> : t \in {x \in G : x[2] \in {SH_datatype, SH_node}}}

\* Number of surviving segments of a class description (0 when skipped).
SegmentCount(cls) == IF HasMarker(cls.desc) THEN Len(Properties(cls.desc)) ELSE 0

RECURSIVE SegmentsFromClass(_, _)
SegmentsFromClass(g, c) ==
    IF c > Len(g.classes) THEN 0
    ELSE SegmentCount(g.classes[c]) + SegmentsFromClass(g, c + 1)

RECURSIVE SegmentsFromModule(_)
SegmentsFromModule(i) ==
    IF i > Len(modules) THEN 0
    ELSE SegmentsFromClass(modules[i].g, 1) + SegmentsFromModule(i + 1)

\* A token the compiler classifies as a literal or a datatype.
LiteralToken(target) ==
    target = <<"rdfs", ":", "Literal">> \/ StartsWith(target, <<"xsd", ":">>)

\* The modeled classes: the classes some module describes with the marker.
Modeled == UNION {Described(modules[i].g) : i \in DOMAIN modules}

\* The class URIs the matched entries of class cls of module lg refer to:
\* the resolved targets other than literal and datatype tokens.
References(cls, lg) ==
    UNION {{r.target_ns \o r.target_local :
              r \in {x \in {ResolveTarget(m.target, cls.uri, <<>>, lg)} : x.error = None}} :
           m \in {x \in {PROPERTY_PATTERN(t) : t \in SeqToSet(Properties(cls.desc))} :
                     x.match /\ ~LiteralToken(x.target)}}

\* Whether no other described class of graph g shares the local name of cls.
OwnLocalName(g, cls) ==
    \A d \in DOMAIN g.classes :
        (HasMarker(g.classes[d].desc) /\ g.classes[d].uri # cls.uri)
        => get_class_local_name(g.classes[d].uri) # get_class_local_name(cls.uri)

\* C1: in every returned shape graph, every property-constraint node hangs
\* off one shape, has exactly one sh:path and exactly one target constraint
\* among nodeKind Literal, datatype, node and nodeKind BlankNodeOrIRI; and
\* every surviving segment has yielded one such node.
C1_OnePathOneTarget ==
    Returned =>
        /\ \A b \in PropertyNodes(shacl) :
              /\ Cardinality({t \in shacl : t[2] = SH_property /\ t[3] = b}) = 1
              /\ Cardinality(Objects(shacl, b, SH_path)) = 1
              /\ Cardinality(TargetConstraints(shacl, b)) = 1
              /\ TargetConstraints(shacl, b) \subseteq TargetConstraintForms(shacl)
        /\ Cardinality(PropertyNodes(shacl)) = SegmentsFromModule(1)

\* A returned graph with two property nodes, one of them a shape reference.
C1_Witness ==
    /\ Returned
    /\ Cardinality(PropertyNodes(shacl)) >= 2
    /\ \E t \in shacl : t[2] = SH_node

\* The counts a cardinality text stands for, read bound by bound.
NumericBound(b) == b # None /\ b[1] \in Digits

\* C2: cardinality round trip.  For every accepted line: the exact form
\* -[n]-> with n numeric carries minCount = maxCount = n; otherwise minCount
\* is emitted iff the first bound is numeric (with its value) and maxCount
\* iff a second bound is present and numeric (with its value).
C2_CardinalityRoundTrip ==
    Compiled =>
        \A m \in {LastMatch} :
            LET exact == NumericBound(m.card_min) /\ ~m.range_sep /\ m.card_max = None
                mins == Objects(shacl, LastNode, SH_minCount)
                maxs == Objects(shacl, LastNode, SH_maxCount)
            IN  IF exact
                THEN /\ mins = {IntLiteral(ToInt(m.card_min))}
                     /\ maxs = {IntLiteral(ToInt(m.card_min))}
                ELSE /\ mins = (IF NumericBound(m.card_min)
                                THEN {IntLiteral(ToInt(m.card_min))} ELSE {})
                     /\ maxs = (IF NumericBound(m.card_max)
                                THEN {IntLiteral(ToInt(m.card_max))} ELSE {})

\* C3: root detection in a single fragment.  A modeled class Y that an
\* entry of another modeled class X refers to carries no sh:targetClass; a
\* modeled class no entry refers to carries sh:targetClass = its own URI.
C3_RootDetection ==
    (Returned /\ ~ctx.is_modular) =>
        \A lg \in {modules[1]} :
        \A refs \in {[c \in {k \in DOMAIN lg.g.classes : HasMarker(lg.g.classes[k].desc)} |->
                        References(lg.g.classes[c], lg)]} :
        \A y \in {k \in DOMAIN refs : OwnLocalName(lg.g, lg.g.classes[k])} :
            LET Y == lg.g.classes[y].uri
                shape == URIRef(ShapeUri(ctx.shapes_base, lg.name, FALSE, Y))
            IN  /\ (\E x \in DOMAIN refs : lg.g.classes[x].uri # Y /\ Y \in refs[x])
                      => Objects(shacl, shape, SH_targetClass) = {}
                /\ (\A x \in DOMAIN refs : Y \notin refs[x])
                      => Objects(shacl, shape, SH_targetClass) = {URIRef(Y)}

\* C4: no dangling reference.  An entry whose target resolves to a modeled
\* class carries sh:node = the shape URI minted for that class, and every
\* object of sh:node in a returned graph is typed sh:NodeShape in it.
C4_NoDanglingReference ==
    /\ Returned =>
          \A t \in shacl : t[2] = SH_node => <<t[3], RDF_TYPE, SH_NodeShape>> \in shacl
    /\ (Compiled /\ ~ctx.is_modular) =>
          \A m \in {LastMatch} :
          \A r \in {ResolveTarget(m.target, CurClass.uri, LastText, CurModule)} :
              (~LiteralToken(m.target) /\ r.error = None
                 /\ (r.target_ns \o r.target_local) \in Modeled)
              => Objects(shacl, LastNode, SH_node)
                   = {URIRef(ShapeUri(ctx.shapes_base, CurModule.name, FALSE,
                                      r.target_ns \o r.target_local))}

\* The graph a complete compilation of the loaded modules holds: a shape for
\* every modeled class and a property node for every surviving segment.
Complete(G) ==
    /\ \A i \in DOMAIN modules : \A u \in Described(modules[i].g) :
          <<URIRef(ShapeUri(ctx.shapes_base, modules[i].name, ctx.is_modular, u)),
            RDF_TYPE, SH_NodeShape>> \in G
    /\ Cardinality(PropertyNodes(G)) = SegmentsFromModule(1)
    /\ \A b \in PropertyNodes(G) : TargetConstraints(G, b) # {}

\* C5: no partial output.  The output file is written only after every class
\* of every module was compiled without error; a run that raised (loading, a
\* malformed segment, a failed resolution) has written nothing.
C5_NoPartialOutput ==
    /\ output # {} => (err = None /\ pc = "done" /\ output = {shacl} /\ Complete(shacl))
    /\ (pc = "raised" \/ err # None) => output = {}

\* A run that raised after part of the graph was built, and wrote nothing.
C5_Witness == pc = "raised" /\ err # None /\ shacl # {} /\ output = {}

\* The class whose property loop the run stands in.
InPropertyLoop == pc = "properties" \/ RaisedAtProperty

TokenPrefix(token) == Head(SplitAny(token, {":"}))

\* The text of a qualified token after its first colon.
TokenLocal(token) == SubSeq(token, Len(TokenPrefix(token)) + 2, Len(token))

\* A qualified token whose prefix none of the three strategies resolves.
Unresolvable(token, lg) ==
    /\ Contains(token, ":")
    /\ _resolve_namespace(TokenPrefix(token), TokenLocal(token), lg.g,
                          lg.uri_ns_map, lg.literal_prefix_map) = None

\* C7: an unresolvable prefix is fatal and descriptive.  A matching line
\* whose name or target has an unresolvable prefix is never compiled, and
\* the error raised at it holds the prefix, the class URI and the line.
C7_UnresolvableIsDescriptive ==
    /\ Compiled =>
          \A m \in {LastMatch} :
              ~Unresolvable(m.prop_name, CurModule) /\ ~Unresolvable(m.target, CurModule)
    /\ RaisedAtProperty =>
          \A m \in {PROPERTY_PATTERN(props[pos.pi])} :
              (m.match /\ Contains(m.prop_name, ":")
                 /\ (Unresolvable(m.prop_name, CurModule)
                       \/ Unresolvable(m.target, CurModule)))
              => /\ IsSubstr(TokenPrefix(IF Unresolvable(m.prop_name, CurModule)
                                         THEN m.prop_name ELSE m.target), err)
                 /\ IsSubstr(CurClass.uri, err)
                 /\ IsSubstr(props[pos.pi], err)

\* The final segment of a URI: its fragment, else its last path segment.
FinalSegment(u) ==
    IF Contains(u, "#") THEN SubSeq(u, RIndex(u, "#") + 1, Len(u))
    ELSE IF Contains(u, "/") THEN SubSeq(u, RIndex(u, "/") + 1, Len(u))
    ELSE u

\* The namespace stems of the URIs of g whose final segment is local.
ObservedStems(g, local) ==
    {SubSeq(u, 1, Len(u) - Len(local)) :
        u \in {x \in GraphURIs(g) : local # <<>> /\ FinalSegment(x) = local /\ Len(x) > Len(local)}}

\* The URIs of the @prefix declarations for prefix in the literals of g.
LiteralDeclarations(g, prefix) ==
    {d[2] : d \in {x \in UNION {PREFIX_PATTERN(l) : l \in GraphLiterals(g)} : x[1] = prefix}}

\* The namespaces the priority order allows for (prefix, local) in g.
ByPriority(g, prefix, local) ==
    IF \E b \in g.bindings : b.prefix = prefix
    THEN {b.ns : b \in {x \in g.bindings : x.prefix = prefix}}
    ELSE IF ObservedStems(g, local) # {} THEN ObservedStems(g, local)
    ELSE LiteralDeclarations(g, prefix)

\* C8: namespace resolution priority.  The namespace a property name is
\* resolved to is the declared binding of its prefix if there is one; else
\* the stem of an observed URI ending in its local name; else the URI of an
\* @prefix declaration in a literal; else the resolution fails.
C8_ResolutionPriority ==
    /\ Compiled =>
          \A m \in {LastMatch} :
              /\ Objects(shacl, LastNode, SH_path) # {}
              /\ Objects(shacl, LastNode, SH_path) \subseteq
                    {URIRef(ns \o TokenLocal(m.prop_name)) :
                        ns \in ByPriority(CurModule.g, TokenPrefix(m.prop_name),
                                          TokenLocal(m.prop_name))}
    /\ RaisedAtProperty =>
          \A m \in {PROPERTY_PATTERN(props[pos.pi])} :
              (m.match /\ Len(SplitAny(m.prop_name, {":"})) = 2) =>
                  \A ok \in {ByPriority(CurModule.g, TokenPrefix(m.prop_name),
                                        TokenLocal(m.prop_name))} :
                      IF ok = {}
                      THEN err = <<"Unknown prefix '">> \o TokenPrefix(m.prop_name)
                                   \o <<"' in ">> \o CurClass.uri \o <<": ">> \o props[pos.pi]
                      ELSE /\ Objects(shacl, LastNode, SH_path) # {}
                           /\ Objects(shacl, LastNode, SH_path) \subseteq
                                  {URIRef(ns \o TokenLocal(m.prop_name)) : ns \in ok}

\* A compiled name whose prefix is bound while its local name is also
\* observed under another namespace, and one resolved by observation while
\* its prefix is also declared in a literal.
C8_WitnessBound ==
    /\ Compiled
    /\ \E b \in CurModule.g.bindings : b.prefix = TokenPrefix(LastMatch.prop_name)
    /\ ObservedStems(CurModule.g, TokenLocal(LastMatch.prop_name)) # {}
    /\ StoreNamespace(CurModule.g, TokenPrefix(LastMatch.prop_name))
          \notin ObservedStems(CurModule.g, TokenLocal(LastMatch.prop_name))

\* C9: the skip rule.  A class without description, or whose description
\* lacks the marker phrase, gets no shape node and raises no error; and a
\* class no module describes with the marker is no modeled class: an entry
\* whose target resolves to it gets nodeKind BlankNodeOrIRI, not sh:node.
C9_SkipRule ==
    /\ \A i \in DOMAIN modules : \A c \in DOMAIN modules[i].g.classes :
          LET cls == modules[i].g.classes[c]
          IN  (~HasMarker(cls.desc)
                 /\ \A d \in DOMAIN modules[i].g.classes :
                       HasMarker(modules[i].g.classes[d].desc) =>
                           get_class_local_name(modules[i].g.classes[d].uri)
                             # get_class_local_name(cls.uri))
              => /\ <<URIRef(ShapeUri(ctx.shapes_base, modules[i].name, ctx.is_modular, cls.uri)),
                      RDF_TYPE, SH_NodeShape>> \notin shacl
                 /\ (InPropertyLoop => ~(pos.mi = i /\ pos.ci = c))
    /\ Compiled =>
          \A m \in {LastMatch} :
          \A r \in {ResolveTarget(m.target, CurClass.uri, LastText, CurModule)} :
              (/\ ~LiteralToken(m.target)
               /\ r.error = None
               /\ (r.target_ns \o r.target_local) \notin Modeled)
              => TargetConstraints(shacl, LastNode) = {<<SH_nodeKind, SH_BlankNodeOrIRI>>}

\* A compiled entry whose target is a class declared without description.
C9_Witness ==
    /\ Compiled
    /\ ~LiteralToken(LastMatch.target)
    /\ \E c \in DOMAIN CurModule.g.classes :
          /\ CurModule.g.classes[c].desc = None
          /\ ResolveTarget(LastMatch.target, CurClass.uri, LastText, CurModule).error = None
          /\ ResolveTarget(LastMatch.target, CurClass.uri, LastText, CurModule).target_ns
               \o ResolveTarget(LastMatch.target, CurClass.uri, LastText, CurModule).target_local
               = CurModule.g.classes[c].uri
    /\ \E c \in DOMAIN CurModule.g.classes :
          /\ CurModule.g.classes[c].desc # None
          /\ ~HasMarker(CurModule.g.classes[c].desc)

\* C10: target classification when the target resolves.  In this order:
\* the token rdfs:Literal gives nodeKind Literal; a token with prefix xsd
\* gives datatype XML Schema namespace + local part; a token resolving to a
\* modeled class gives sh:node; every other token nodeKind BlankNodeOrIRI.
C10_TargetClassification ==
    Compiled =>
        \A m \in {LastMatch} :
        \A r \in {ResolveTarget(m.target, CurClass.uri, LastText, CurModule)} :
        \A tc \in {TargetConstraints(shacl, LastNode)} :
            r.error = None =>
                IF m.target = <<"rdfs", ":", "Literal">>
                THEN tc = {<<SH_nodeKind, SH_Literal>>}
                ELSE IF TokenPrefix(m.target) = <<"xsd">> /\ Contains(m.target, ":")
                THEN tc = {<<SH_datatype, URIRef(XSD_NS \o TokenLocal(m.target))>>}
                ELSE IF (r.target_ns \o r.target_local) \in Modeled
                THEN Cardinality(tc) = 1 /\ \A x \in tc : x[1] = SH_node
                ELSE tc = {<<SH_nodeKind, SH_BlankNodeOrIRI>>}

\* A compiled xsd token whose resolved URI is itself a modeled class.
C10_Witness ==
    /\ Compiled
    /\ StartsWith(LastMatch.target, <<"xsd", ":">>)
    /\ (XSD_NS \o TokenLocal(LastMatch.target)) \in Modeled
    /\ \E t \in shacl : t[1] = LastNode /\ t[2] = SH_datatype

\* C11: the literal marker comes first.  A property entry whose target
\* token is exactly rdfs:Literal gets nodeKind Literal and compilation does
\* not fail on the target, whatever the bindings, the observed URIs and the
\* literals of the module hold.
C11_LiteralMarkerFirst ==
    /\ Compiled =>
          (LastMatch.target = <<"rdfs", ":", "Literal">>
             => TargetConstraints(shacl, LastNode) = {<<SH_nodeKind, SH_Literal>>})
    /\ RaisedAtProperty =>
          \A m \in {PROPERTY_PATTERN(props[pos.pi])} :
              (m.match /\ m.target = <<"rdfs", ":", "Literal">>)
              => ResolveProperty(m.prop_name, CurClass.uri, props[pos.pi], CurModule).error # None

\* The segments of an annotation as the rule states them: split at the
\* bullets, drop the first piece, trim the others, drop the blank ones.
SegmentsAfterHeader(desc) ==
    SelectSeq([i \in 1..(Len(SplitAny(desc, Bullets)) - 1) |->
                  Strip(SplitAny(desc, Bullets)[i + 1])],
              LAMBDA x : x # <<>>)

\* C12: segmentation.  The property entries of a modeled class are the
\* pieces of its annotation after the first piece of the split, trimmed,
\* blank ones dropped; its shape has as many sh:property constraints.
C12_Segmentation ==
    /\ pc = "properties" => props = SegmentsAfterHeader(CurClass.desc)
    /\ Returned =>
          \A i \in DOMAIN modules : \A c \in DOMAIN modules[i].g.classes :
              LET cls == modules[i].g.classes[c]
              IN  (HasMarker(cls.desc) /\ OwnLocalName(modules[i].g, cls)) =>
                      Cardinality({t \in shacl :
                                      /\ t[1] = URIRef(ShapeUri(ctx.shapes_base, modules[i].name,
                                                                ctx.is_modular, cls.uri))
                                      /\ t[2] = SH_property})
                        = Len(SegmentsAfterHeader(cls.desc))

\* The text s without its trailing '/' characters.
WithoutTrailingSlashes(s) ==
    SubSeq(s, 1, CHOOSE k \in 0..Len(s) :
                    /\ (k = 0 \/ s[k] # "/")
                    /\ \A j \in (k + 1)..Len(s) : s[j] = "/")

\* The base the allocation rule gives for the source.
AllocatedBase ==
    IF input.shapes_base # None THEN input.shapes_base
    ELSE IF input.kind = "dir"
    THEN <<"https:", "/", "/", "w3id.org", "/", "skg-if", "/", "shapes", "/">>
    ELSE IF input.graph.iri # None
    THEN WithoutTrailingSlashes(input.graph.iri) \o <<"/", "shapes", "/">>
    ELSE <<"http:", "/", "/", "example.org", "/", "shapes", "/">>

\* The shape URI the rule gives to class URI u of module name.
AllocatedShape(name, u) ==
    IF input.kind = "dir"
    THEN URIRef(AllocatedBase \o name \o <<"/">> \o FinalSegment(u) \o <<"Shape">>)
    ELSE URIRef(AllocatedBase \o FinalSegment(u) \o <<"Shape">>)

\* The run is past the allocation of the base.
Prepared == pc \in {"classes", "properties", "returned", "done"}

\* C13: shape namespace allocation.  The base is the override when given,
\* else the fixed base for a directory, else the ontology IRI without its
\* trailing '/' + "/shapes/", else http://example.org/shapes/; the shapes
\* are base + module + "/" + local name + "Shape" for a directory and
\* base + local name + "Shape" for a single fragment.
C13_ShapeNamespace ==
    /\ Prepared => ctx.shapes_base = AllocatedBase
    /\ Prepared =>
          {t[1] : t \in {x \in shacl : x[2] = RDF_TYPE /\ x[3] = SH_NodeShape}}
            \subseteq UNION {{AllocatedShape(modules[i].name, u) : u \in Described(modules[i].g)} :
                             i \in DOMAIN modules}
    /\ Returned =>
          \A i \in DOMAIN modules : \A u \in Described(modules[i].g) :
              <<AllocatedShape(modules[i].name, u), RDF_TYPE, SH_NodeShape>> \in shacl

\* A directory compiled under an override, with its shapes minted.
C13_Witness ==
    /\ Returned
    /\ input.kind = "dir"
    /\ input.shapes_base # None
    /\ \E t \in shacl : t[2] = RDF_TYPE

\* A single fragment whose ontology IRI ends with '/', compiled without
\* override.
C13_WitnessIri ==
    /\ Returned
    /\ input.kind = "file"
    /\ input.shapes_base = None
    /\ input.graph.iri # None
    /\ Last(input.graph.iri) = "/"
    /\ \E t \in shacl : t[2] = RDF_TYPE

\* C14: unqualified tokens.  A property or target token without prefix is
\* looked up as a local name among the observed URIs: when found, the path
\* (the target URI) is that stem + the token; when not found the run fails
\* with an error naming the token.  Bare property names as bare targets.
C14_UnqualifiedTokens ==
    /\ Compiled =>
          \A m \in {LastMatch} :
              /\ ~Contains(m.prop_name, ":") =>
                    /\ Objects(shacl, LastNode, SH_path) # {}
                    /\ Objects(shacl, LastNode, SH_path) \subseteq
                          {URIRef(ns \o m.prop_name) : ns \in ObservedStems(CurModule.g, m.prop_name)}
              /\ ~Contains(m.target, ":") =>
                    \E ns \in ObservedStems(CurModule.g, m.target) :
                        TargetConstraints(shacl, LastNode) =
                            (IF (ns \o m.target) \in Modeled
                             THEN {<<SH_node, URIRef(TargetShapeUri(ns \o m.target, m.target,
                                       ctx.class_to_modules, CurModule.name, ctx.shapes_base,
                                       ctx.is_modular))>>}
                             ELSE {<<SH_nodeKind, SH_BlankNodeOrIRI>>})
    /\ RaisedAtProperty =>
          \A m \in {PROPERTY_PATTERN(props[pos.pi])} :
              /\ (m.match /\ ~Contains(m.prop_name, ":")) =>
                    IF ObservedStems(CurModule.g, m.prop_name) = {}
                    THEN IsSubstr(m.prop_name, err)
                    ELSE Objects(shacl, BNode(bnodes), SH_path) \subseteq
                             {URIRef(ns \o m.prop_name) :
                                 ns \in ObservedStems(CurModule.g, m.prop_name)}
                         /\ err # UnpackError(1)
              /\ (m.match /\ ~Contains(m.target, ":")
                    /\ ResolveProperty(m.prop_name, CurClass.uri, props[pos.pi], CurModule).error = None)
                 => (ObservedStems(CurModule.g, m.target) = {} /\ IsSubstr(m.target, err))

\* C15: a self-reference does not demote a root.  In a single fragment a
\* modeled class that no entry of another class refers to (its own entries
\* may) keeps sh:targetClass = its own URI.
C15_SelfReferenceKeepsRoot ==
    (Returned /\ ~ctx.is_modular) =>
        \A lg \in {modules[1]} :
        \A refs \in {[c \in {k \in DOMAIN lg.g.classes : HasMarker(lg.g.classes[k].desc)} |->
                        References(lg.g.classes[c], lg)]} :
        \A y \in DOMAIN refs :
            (/\ OwnLocalName(lg.g, lg.g.classes[y])
             /\ \A x \in DOMAIN refs :
                   lg.g.classes[x].uri # lg.g.classes[y].uri => lg.g.classes[y].uri \notin refs[x])
            => Objects(shacl, URIRef(ShapeUri(ctx.shapes_base, lg.name, FALSE, lg.g.classes[y].uri)),
                       SH_targetClass)
                 = {URIRef(lg.g.classes[y].uri)}

\* The subjects typed sh:NodeShape in graph G.
NodeShapes(G) == {t[1] : t \in {x \in G : x[2] = RDF_TYPE /\ x[3] = SH_NodeShape}}

\* C16: one shape per modeled class.  Within a module, distinct modeled
\* classes have distinct shape nodes (also two classes of the same local
\* name under different namespaces): a returned graph holds as many
\* sh:NodeShape resources as the modules have modeled classes.
C16_OneShapePerClass ==
    Returned =>
        /\ \A i \in DOMAIN modules : \A u, v \in Described(modules[i].g) :
              u # v => ShapeUri(ctx.shapes_base, modules[i].name, ctx.is_modular, u)
                         # ShapeUri(ctx.shapes_base, modules[i].name, ctx.is_modular, v)
        /\ ~ctx.is_modular =>
              Cardinality(NodeShapes(shacl)) = Cardinality(Described(modules[1].g))

\* C17: determinism.  The triples compiled for a property entry (and the
\* root set of a single fragment) are the same for every order in which the
\* triples of the module can be enumerated, that is for every lookup table
\* the enumeration can produce.
C17_Determinism ==
    /\ Compiled =>
          \A um \in _build_uri_namespace_map(CurModule.g) :
          \A lm \in _extract_prefixes_from_literals(CurModule.g) :
          \A r \in {_process_property(LastText, CurClass.uri,
                                      Loaded(CurModule.name, CurModule.g, um, lm),
                                      ShapeUri(ctx.shapes_base, CurModule.name, ctx.is_modular,
                                               CurClass.uri),
                                      ctx.class_to_modules, CurModule.name, ctx.shapes_base,
                                      ctx.is_modular, LastNode)} :
              r.error = None /\ r.triples \subseteq shacl
    /\ (Prepared /\ ~ctx.is_modular) =>
          \A um \in _build_uri_namespace_map(modules[1].g) :
          \A lm \in _extract_prefixes_from_literals(modules[1].g) :
              _detect_root_classes(Loaded(modules[1].name, modules[1].g, um, lm),
                                   DOMAIN ctx.class_to_modules).roots = ctx.root_class_uris

\* C18: the root binding of a directory source is keyed by module.  The
\* shape of class C in module M carries sh:targetClass only if the fixed
\* table maps the module name M to the URI of C.
C18_RootKeyedByModule ==
    (Returned /\ ctx.is_modular) =>
        \A i \in DOMAIN modules : \A u \in Described(modules[i].g) :
            Objects(shacl, URIRef(ShapeUri(ctx.shapes_base, modules[i].name, TRUE, u)),
                    SH_targetClass) # {}
            => /\ modules[i].name \in DOMAIN ROOT_CLASSES
               /\ ROOT_CLASSES[modules[i].name] = u

\* The names of the loaded modules whose graph describes class u.
Owners(u) == {modules[i].name : i \in {k \in DOMAIN modules : u \in Described(modules[k].g)}}

\* The lexicographically smallest of a set of module names.
Smallest(names) == CHOOSE n \in names : \A m \in names : NameRank(n) <= NameRank(m)

\* C19: cross-module tie-break.  For a directory source, a property of a
\* class of module M whose target is modeled in the modules T refers by
\* sh:node to the shape in the sub-namespace of M when M is in T, and
\* otherwise to the shape in the sub-namespace of the smallest name of T.
C19_TieBreak ==
    (Compiled /\ ctx.is_modular) =>
        \A m \in {LastMatch} :
        \A r \in {ResolveTarget(m.target, CurClass.uri, LastText, CurModule)} :
            (r.error = None /\ Objects(shacl, LastNode, SH_node) # {}) =>
                \A T \in {Owners(r.target_ns \o r.target_local)} :
                    /\ T # {}
                    /\ Objects(shacl, LastNode, SH_node)
                         = {URIRef(ShapeUri(ctx.shapes_base,
                                            IF CurModule.name \in T THEN CurModule.name
                                            ELSE Smallest(T),
                                            TRUE, r.target_ns \o r.target_local))}

\* A compiled reference from module topic to a class described in the
\* modules agent and grant only.
C19_Witness ==
    /\ Compiled /\ ctx.is_modular
    /\ CurModule.name = <<"topic">>
    /\ Owners(FOAF_NS \o <<"Agent">>) = {<<"agent">>, <<"grant">>}
    /\ Objects(shacl, LastNode, SH_node)
         = {URIRef(ctx.shapes_base \o <<"agent", "/", "Agent", "Shape">>)}

\* A compiled reference from module grant to a class described in grant and
\* in a module of smaller name.
C19_WitnessOwn ==
    /\ Compiled /\ ctx.is_modular
    /\ CurModule.name = <<"grant">>
    /\ Owners(EX \o <<"B">>) = {<<"agent">>, <<"grant">>, <<"topic">>}
    /\ Objects(shacl, LastNode, SH_node)
         = {URIRef(ctx.shapes_base \o <<"grant", "/", "B", "Shape">>)}

\* The sub-directories of a directory source that become modules: all but
\* the one named resources, with at least one file of a recognised format.
ModuleDirs(src) == {d \in src.dirs : d.name # <<"resources">> /\ d.files # {}}

\* C20: directory loading.  A directory source is loaded as modular and its
\* modules are exactly the sub-directories, other than resources, holding a
\* file of a recognised format, each parsed from a file of the most
\* preferred format present; any other source is loaded as one module and
\* not modular.
C20_DirectoryLoading ==
    pc = "loaded" =>
        IF input.kind = "dir"
        THEN /\ ctx.is_modular
             /\ {modules[i].name : i \in DOMAIN modules} = {d.name : d \in ModuleDirs(input)}
             /\ Len(modules) = Cardinality(ModuleDirs(input))
             /\ \A i \in DOMAIN modules : \A d \in ModuleDirs(input) :
                    d.name = modules[i].name =>
                        \E f \in d.files : /\ modules[i].g = f.g
                                           /\ \A f2 \in d.files : f.fmt <= f2.fmt
        ELSE Len(modules) = 1 /\ ~ctx.is_modular

\* A loaded directory with a sub-directory named resources holding a file,
\* an empty sub-directory, and a module directory with files of two
\* formats.
C20_Witness ==
    /\ pc = "loaded" /\ input.kind = "dir"
    /\ \E d \in input.dirs : d.name = <<"resources">> /\ d.files # {}
    /\ \E d \in input.dirs : d.name # <<"resources">> /\ d.files = {}
    /\ \E d \in ModuleDirs(input) : \E f, f2 \in d.files : f.fmt < f2.fmt /\ f.g # f2.g
    /\ Len(modules) = 2

\* A loaded file source.
C20_WitnessFile == pc = "loaded" /\ input.kind = "file" /\ Len(modules) = 1

\* The last path component of a locator.
BaseName(source) == Last(SplitAny(RStripSlash(source), {"/"}))

\* A file name with only its final extension removed.
WithoutFinalExtension(name) ==
    IF 1 < RIndex(name, ".") /\ RIndex(name, ".") < Len(name)
    THEN SubSeq(name, 1, RIndex(name, ".") - 1)
    ELSE name

\* The non-empty path segments of the declared ontology IRI of graph g.
IriSegments(g) == IF g.iri = None THEN <<>> ELSE PathParts(UrlPath(g.iri))

\* C21: module name of a file or URL source.  The last non-empty path
\* segment of the declared ontology IRI when it has one; otherwise, for a
\* URL, the last non-empty path segment of the URL; otherwise, for a local
\* file, the base name with only its final extension removed; "ontology"
\* when nothing can be extracted.
C21_ModuleName ==
    (pc = "loaded" /\ input.kind = "file") =>
        modules[1].name =
            IF IriSegments(input.graph) # <<>> THEN Last(IriSegments(input.graph))
            ELSE IF _is_url(input.source)
                 THEN IF PathParts(UrlPath(input.source)) # <<>>
                      THEN Last(PathParts(UrlPath(input.source)))
                      ELSE <<"ontology">>
                 ELSE WithoutFinalExtension(BaseName(input.source))

\* C22: a directory source with no recognised ontology file in any module
\* sub-directory is a fatal source error.  The compilation fails before any
\* parsing: it never gets past loading, returns no graph and no output file
\* is written.
C22_EmptyDirectoryIsFatal ==
    (input.kind = "dir" /\ ModuleDirs(input) = {}) =>
        /\ pc \in {"start", "raised"}
        /\ output = {}

\* C23: every sh:maxCount the compiler emits is a positive integer and
\* every sh:minCount a non-negative integer.
C23_CountsInRange ==
    \A t \in shacl :
        /\ t[2] = SH_maxCount => (t[3].k = "int" /\ t[3].n >= 1)
        /\ t[2] = SH_minCount => (t[3].k = "int" /\ t[3].n >= 0)

\* C24: inputs are read-only during compilation.  From the end of loading
\* on, no step changes the source, the triples or bindings of a module
\* graph, or a module's observed-URI map and literal-prefix map.
C24_InputsReadOnly ==
    [][pc # "start" => (modules' = modules /\ input' = input)]_vars

\* A returned compilation that emitted property constraints while its
\* modules still are a result of loading the source.
C24_Witness ==
    /\ Returned
    /\ bnodes >= 2
    /\ \E r \in _load_source(input) : modules = r.modules

\* C25: in a single fragment the root detector and the compiler agree on
\* what a reference is.  For every modeled class Y, the shape of Y lacks
\* sh:targetClass if and only if some emitted property constraint carries
\* sh:node pointing to the shape of Y.
C25_DetectorAgreesWithCompiler ==
    (Returned /\ ~ctx.is_modular) =>
        \A lg \in {modules[1]} :
        \A y \in {k \in DOMAIN lg.g.classes :
                    HasMarker(lg.g.classes[k].desc) /\ OwnLocalName(lg.g, lg.g.classes[k])} :
        \A shape \in {URIRef(ShapeUri(ctx.shapes_base, lg.name, FALSE, lg.g.classes[y].uri))} :
            (Objects(shacl, shape, SH_targetClass) = {})
                <=> (\E t \in shacl : t[2] = SH_node /\ t[3] = shape)

\* The URIs of the fixed root table.
TableUris == {ROOT_CLASSES[m] : m \in DOMAIN ROOT_CLASSES}

\* C26: for a directory source the root set is exactly the six URIs of the
\* fixed table and no structural detection is run.  The shape of a modeled
\* class carries sh:targetClass = its URI when the URI is in the table,
\* referenced or not, and none otherwise, in every module that models it.
C26_DirectoryRootSet ==
    /\ (Prepared /\ ctx.is_modular) =>
          (ctx.root_class_uris = TableUris /\ Cardinality(TableUris) = 6)
    /\ (Returned /\ ctx.is_modular) =>
          \A i \in DOMAIN modules : \A u \in Described(modules[i].g) :
              Objects(shacl, URIRef(ShapeUri(ctx.shapes_base, modules[i].name, TRUE, u)),
                      SH_targetClass)
                = IF u \in TableUris THEN {URIRef(u)} ELSE {}

\* A returned directory compilation in which foaf:Agent, modeled in the
\* modules agent and grant, is the target of a property of module topic
\* and carries sh:targetClass on both of its shapes.
C26_Witness ==
    /\ Returned /\ ctx.is_modular
    /\ Owners(FOAF_NS \o <<"Agent">>) = {<<"agent">>, <<"grant">>}
    /\ \E t \in shacl : t[2] = SH_node
                          /\ t[3] = URIRef(ctx.shapes_base \o <<"agent", "/", "Agent", "Shape">>)
    /\ \A m \in {<<"agent">>, <<"grant">>} :
          <<URIRef(ctx.shapes_base \o m \o <<"/", "Agent", "Shape">>), SH_targetClass,
            URIRef(FOAF_NS \o <<"Agent">>)>> \in shacl

\* A returned directory compilation with a modeled class outside the table
\* that no property refers to and that carries no sh:targetClass.
C26_WitnessOutside ==
    /\ Returned /\ ctx.is_modular
    /\ \E i \in DOMAIN modules : \E u \in Described(modules[i].g) :
          /\ u \notin TableUris
          /\ \A j \in DOMAIN modules : \A c \in DOMAIN modules[j].g.classes :
                u \notin References(modules[j].g.classes[c], modules[j])
          /\ Objects(shacl, URIRef(ShapeUri(ctx.shapes_base, modules[i].name, TRUE, u)),
                     SH_targetClass) = {}

\* The described classes of graph g that have no property segment.
EmptyModeled(g) ==
    {g.classes[c].uri : c \in {k \in DOMAIN g.classes :
                                  /\ HasMarker(g.classes[k].desc)
                                  /\ SegmentsAfterHeader(g.classes[k].desc) = <<>>}}

\* C27: a class whose annotation carries the marker phrase and has no
\* property segment still gets a shape typed sh:NodeShape, without any
\* sh:property, and counts as modeled: a property of another class whose
\* target resolves to it carries sh:node = that shape.
C27_EmptyClassIsModeled ==
    /\ Returned =>
          \A i \in DOMAIN modules : \A u \in EmptyModeled(modules[i].g) :
          \A shape \in {URIRef(ShapeUri(ctx.shapes_base, modules[i].name, ctx.is_modular, u))} :
              /\ <<shape, RDF_TYPE, SH_NodeShape>> \in shacl
              /\ OwnLocalName(modules[i].g, [uri |-> u]) => Objects(shacl, shape, SH_property) = {}
    /\ Compiled =>
          \A m \in {LastMatch} :
          \A r \in {ResolveTarget(m.target, CurClass.uri, LastText, CurModule)} :
              (/\ ~LiteralToken(m.target)
               /\ r.error = None
               /\ \E i \in DOMAIN modules :
                     (r.target_ns \o r.target_local) \in EmptyModeled(modules[i].g))
              => /\ Objects(shacl, LastNode, SH_node) # {}
                 /\ Objects(shacl, LastNode, SH_node)
                      \subseteq {URIRef(ShapeUri(ctx.shapes_base, o, ctx.is_modular,
                                                 r.target_ns \o r.target_local)) :
                                    o \in Owners(r.target_ns \o r.target_local)}

\* The text whose processing has just ended, with a return or with a raise.
Processed == IF pc = "raised" THEN props[pos.pi] ELSE LastText

\* The first k atoms of text t are a whole property line: the pattern
\* matches them up to their last atom.
WholeLine(t, k) ==
    \A m \in {PROPERTY_PATTERN(SubSeq(t, 1, k))} :
        /\ m.match
        /\ Len(m.target) < k
        /\ SubSeq(t, k - Len(m.target) + 1, k) = m.target
        /\ t[k - Len(m.target)] \in WS

\* C28: the property pattern is matched as a prefix of the segment.  A
\* segment that begins with a whole property line followed by further text
\* is matched as the line alone is, and is compiled to the triples of the
\* line alone, with an error exactly when the line alone gives one.
C28_PrefixMatch ==
    (Compiled \/ RaisedAtProperty) =>
        \A t \in {Processed} :
        \A k \in 1..(Len(t) - 1) :
            (WholeLine(t, k) /\ t[k + 1] \notin TokenAtoms) =>
                \A shape_uri \in {ShapeUri(ctx.shapes_base, CurModule.name, ctx.is_modular,
                                           CurClass.uri)} :
                \A rf \in {_process_property(t, CurClass.uri, CurModule, shape_uri,
                                             ctx.class_to_modules, CurModule.name,
                                             ctx.shapes_base, ctx.is_modular, LastNode)} :
                \A rl \in {_process_property(SubSeq(t, 1, k), CurClass.uri, CurModule, shape_uri,
                                             ctx.class_to_modules, CurModule.name,
                                             ctx.shapes_base, ctx.is_modular, LastNode)} :
                    /\ PROPERTY_PATTERN(t) = PROPERTY_PATTERN(SubSeq(t, 1, k))
                    /\ rf.triples = rl.triples
                    /\ (rf.error = None) <=> (rl.error = None)
                    /\ (rl.error = None) => (Compiled /\ rf.triples \subseteq shacl)

\* A compiled segment with a second line after its property line.
C28_Witness ==
    /\ Compiled
    /\ \E k \in 1..(Len(LastText) - 1) : WholeLine(LastText, k) /\ LastText[k + 1] = "\n"
    /\ \E t \in shacl : t[1] = LastNode /\ t[2] = SH_nodeKind

\* The match m is a range a..b with numeric a greater than numeric b.
InvertedBounds(m) ==
    /\ m.match /\ m.range_sep
    /\ NumericBound(m.card_min) /\ NumericBound(m.card_max)
    /\ ToInt(m.card_min) > ToInt(m.card_max)

\* C29: the order of the bounds is not validated.  A line p -[a..b]-> with
\* numeric a greater than b is not rejected as malformed, and when it is
\* compiled its constraint carries minCount = a and maxCount = b.
C29_BoundsNotOrdered ==
    /\ RaisedAtProperty =>
          \A m \in {PROPERTY_PATTERN(props[pos.pi])} :
              InvertedBounds(m) => err # InvalidFormat(CurClass.uri, props[pos.pi])
    /\ Compiled =>
          \A m \in {LastMatch} :
              InvertedBounds(m) =>
                  /\ Objects(shacl, LastNode, SH_minCount) = {IntLiteral(ToInt(m.card_min))}
                  /\ Objects(shacl, LastNode, SH_maxCount) = {IntLiteral(ToInt(m.card_max))}

\* A compiled line -[2..1]-> whose constraint carries minCount 2 and
\* maxCount 1.
C29_Witness ==
    /\ Compiled
    /\ InvertedBounds(LastMatch)
    /\ <<LastNode, SH_minCount, IntLiteral(2)>> \in shacl
    /\ <<LastNode, SH_maxCount, IntLiteral(1)>> \in shacl

\* Every modeled class of the single fragment lg is the resolved target of
\* some property entry of a modeled class.
AllReferenced(lg) ==
    \A refs \in {UNION {References(lg.g.classes[c], lg) :
                          c \in {k \in DOMAIN lg.g.classes : HasMarker(lg.g.classes[k].desc)}}} :
        /\ Described(lg.g) # {}
        /\ Described(lg.g) \subseteq refs

\* C30: in a single fragment the root set can be empty although modeled
\* classes exist.  When every modeled class is the resolved target of some
\* property entry, the compilation returns and no shape of the returned
\* graph carries sh:targetClass.
C30_EmptyRootSet ==
    /\ (Prepared /\ ~ctx.is_modular /\ AllReferenced(modules[1])) => ctx.root_class_uris = {}
    /\ (Returned /\ ~ctx.is_modular /\ AllReferenced(modules[1])) =>
          \A t \in shacl : t[2] # SH_targetClass

====
